---------------------------- MODULE Spec2Model ----------------------------
(***************************************************************************)
(* Notes application backend (Express + Mongoose): the authentication      *)
(* controller, the token utilities, the User model, the protect middleware *)
(* and the notes controller.                                               *)
(*                                                                         *)
(* A request handler is an async function: it runs synchronously up to an  *)
(* awaited database operation and resumes when that operation completes.   *)
(* Each action below is one database operation of a handler together with  *)
(* the synchronous code that follows it up to the next await, so requests  *)
(* interleave exactly at the awaits of the source.  The notes handlers,    *)
(* getMe and updateProfile are one action each: the specifications that    *)
(* take them serve one request at a time.                                  *)
(***************************************************************************)
EXTENDS Integers, Sequences, FiniteSets, TLC

\* ------------------------------------------------------------------ bounds
\* Requests started in one behaviour.
MaxRequests == 4
\* Requests in flight at the same time.
MaxInFlight == 2
\* Advances of the clock in one behaviour.
MaxTicks == 2
\* Requests started in one behaviour of the protected routes.
MaxProtectRequests == 2
\* Requests started in one behaviour of the handlers that write one note.
MaxFieldRequests == 3
\* Calls of the API the page makes in one behaviour.
MaxCalls == 2
\* Requests started in one behaviour of the reset of two users' passwords.
MaxCodeRequests == 5
\* Requests started in one behaviour of all the routes.
MaxStoreRequests == 4
\* Calls the page makes through the queueing client.
MaxQueueCalls == 3

\* ------------------------------------------------------- program constants
RESET_TOKEN_EXPIRY_MS == 10 * 60 * 1000
ACCESS_TOKEN_EXPIRY == 15 * 60
REFRESH_TOKEN_EXPIRY == 7 * 24 * 60 * 60
MinPasswordLength == 8

\* ------------------------------------------------------------------ inputs
\* Strings are sequences of characters where the code looks inside them
\* (password length, the bcrypt-prefix test of the pre-save hook).
PwOld == <<"o", "l", "d", "p", "a", "s", "s", "1">>
PwNew == <<"n", "e", "w", "p", "a", "s", "s", "2">>
PwDollar == <<"$", "2", "b", "$", "1", "0", "$", "a", "b">>
PwShort == <<"s", "h", "o", "r", "t">>
PwMissing == <<>>
Passwords == {PwOld, PwNew, PwDollar, PwShort, PwMissing}

Emails == {"a@x.io", "b@x.io"}

\* The 6-digit codes Math.random can produce (a sample of 100000..999999).
ResetCodes == {"100000", "999999"}

\* What clients send: for each handler the well-formed requests and one
\* request for each of its validation failures ("" and <<>>: a missing field).
SignupInputs ==
    {[name |-> "Ann", email |-> e, password |-> PwOld] : e \in Emails}
      \cup {[name |-> "", email |-> "a@x.io", password |-> PwOld],
            [name |-> "Ann", email |-> "", password |-> PwOld],
            [name |-> "Ann", email |-> "a@x.io", password |-> PwMissing],
            [name |-> "Ann", email |-> "a@x.io", password |-> PwShort]}

\* A signup the controller's checks pass and the schema's validator refuses.
IllFormedSignups == {[name |-> "Ann", email |-> "not-an-email", password |-> PwOld]}

LoginInputs ==
    {[email |-> e, password |-> p] : e \in Emails, p \in {PwOld, PwNew, PwDollar}}
      \cup {[email |-> "", password |-> PwOld],
            [email |-> "a@x.io", password |-> PwMissing]}

ChangePasswordInputs ==
    {[currentPassword |-> PwOld, newPassword |-> PwNew],
     [currentPassword |-> PwOld, newPassword |-> PwDollar],
     [currentPassword |-> PwNew, newPassword |-> PwOld],
     [currentPassword |-> PwOld, newPassword |-> PwShort],
     [currentPassword |-> PwOld, newPassword |-> PwMissing],
     [currentPassword |-> PwMissing, newPassword |-> PwNew]}

ForgotPasswordInputs == Emails \cup {"nobody@x.io", ""}

ResetTokenInputs == ResetCodes \cup {""}

ResetPasswordInputs ==
    {[token |-> t, newPassword |-> p, confirmPassword |-> p] :
        t \in ResetCodes, p \in {PwNew, PwDollar}}
      \cup {[token |-> "", newPassword |-> PwNew, confirmPassword |-> PwNew],
            [token |-> "100000", newPassword |-> PwMissing, confirmPassword |-> PwNew],
            [token |-> "100000", newPassword |-> PwNew, confirmPassword |-> PwOld],
            [token |-> "100000", newPassword |-> PwShort, confirmPassword |-> PwShort]}

None == [absent |-> TRUE]
\* An absent Date path: no $gt comparison matches it.
NoDate == 0 - 1

\* ------------------------------------------------------------- tokenUtils
\* jwt.sign({userId}, secret, {expiresIn}): the payload is userId, iat (the
\* time in whole seconds) and exp; HS256 is deterministic, so two tokens of one
\* kind for one user signed in the same second are the same string.
NowSeconds(now) == now \div 1000

generateAccessToken(userId, now) ==
    [typ |-> "access", userId |-> userId, iat |-> NowSeconds(now),
     exp |-> NowSeconds(now) + ACCESS_TOKEN_EXPIRY]

generateRefreshToken(userId, now) ==
    [typ |-> "refresh", userId |-> userId, iat |-> NowSeconds(now),
     exp |-> NowSeconds(now) + REFRESH_TOKEN_EXPIRY]

generateTokens(userId, now) ==
    [accessToken |-> generateAccessToken(userId, now),
     refreshToken |-> generateRefreshToken(userId, now)]

\* A string that is no JWT signed with either secret.
BadToken == [typ |-> "garbage", userId |-> 0, iat |-> 0, exp |-> 0]
NoToken == [typ |-> "", userId |-> 0, iat |-> 0, exp |-> 0]

\* jwt.verify with ignoreExpiration.
verifyAccessToken_NoExpiry(token, now) == token.typ = "access"

\* jwt.verify: the signature is the secret's (access and refresh secrets
\* differ) and the token has not expired (now >= exp is expired).
verifyAccessToken(token, now) ==
    token.typ = "access" /\ NowSeconds(now) < token.exp

verifyRefreshToken(token, now) ==
    token.typ = "refresh" /\ NowSeconds(now) < token.exp

\* No hashing: the token itself.
hashToken_Identity(token) == token

\* SHA-256, hex: injective on the tokens of the model, and never the token.
hashToken(token) == [sha256 |-> token]

setAuthCookies(accessToken, refreshToken) ==
    [accessToken |-> accessToken, refreshToken |-> refreshToken]

clearAuthCookies == [accessToken |-> NoToken, refreshToken |-> NoToken]

NoCookies == [unchanged |-> TRUE]

\* ------------------------------------------------------------- User model
\* /^\$2[aby]\$/.test(password)
LooksBcryptHashed(p) ==
    /\ Len(p) >= 4
    /\ p[1] = "$"
    /\ p[2] = "2"
    /\ p[3] \in {"a", "b", "y"}
    /\ p[4] = "$"

\* bcrypt.hash: salted; what matters is which plaintext it verifies.
bcryptHash(p) == [bcrypt |-> p]

\* pre('save'): runs when the password path is modified.
preSavePassword(p) ==
    IF LooksBcryptHashed(p) THEN [plain |-> p] ELSE bcryptHash(p)

\* bcrypt.compare(candidate, stored): false when stored is no bcrypt hash.
comparePassword(candidate, stored) == stored = [bcrypt |-> candidate]

\* sendSuccess(res, statusCode, message, data) and sendError(res, statusCode,
\* message): the status and the JSON body; cookies are set on the side.
sendSuccess(status, message, data) ==
    [status |-> status, success |-> TRUE, message |-> message, data |-> data,
     cookies |-> NoCookies]

sendError(status, message) ==
    [status |-> status, success |-> FALSE, message |-> message, data |-> None,
     cookies |-> NoCookies]

WithCookies(response, cookies) == [response EXCEPT !.cookies = cookies]

-----------------------------------------------------------------------------
VARIABLES
    users,      \* the users collection: a sequence, _id = position
    clock,      \* Date.now(), milliseconds
    ticks,      \* clock advances so far
    reqs,       \* requests in flight, each at one of its awaits
    nreq,       \* requests started so far
    resp,       \* the response sent last
    mail,       \* reset emails delivered: {[to, token]}
    issued,     \* history: every refresh token issued so far
    lastIssued, \* history: user id -> the refresh token issued to it last
    accepted,   \* history: refresh token -> successful refreshes presenting it
    revoked,    \* history: refresh tokens issued before a completed logout
                \*   / password change, by cause
    limit,      \* how many requests a behaviour starts, and has in flight, at most
    handed,     \* history: the refresh tokens clients hold (set as a cookie)
    notes,      \* the notes collection: a sequence, _id = position, None
                \*   where the document was deleted
    client      \* the browser: localStorage, the AuthProvider's state and the
                \*   apiClient calls in flight

vars == <<users, clock, ticks, reqs, nreq, resp, mail, issued, lastIssued,
          accepted, revoked, limit, handed, notes, client>>

\* The server's variables.
serverVars == <<users, clock, ticks, reqs, nreq, resp, mail, issued, lastIssued,
                accepted, revoked, limit, handed, notes>>

UserIds == 1..Len(users)

\* A lookup that ignores the email.
findByEmail_AnyUser(email) == UserIds

findByEmail(email) == {u \in UserIds : users[u].email = email}

\* localStorage.getItem('accessToken') of a missing item.
NoItem == ""

\* The value of the context: isAuthenticated: !!user
Render_FromToken(cl) ==
    [user |-> cl.user, loading |-> cl.loading, error |-> cl.error,
     isAuthenticated |-> cl.accessToken # NoItem]

Render(cl) ==
    [user |-> cl.user, loading |-> cl.loading, error |-> cl.error,
     isAuthenticated |-> cl.user # None]

\* The provider renders again after a change of its state.
Rendered(cl) == [cl EXCEPT !.value = Render(cl)]

\* The page as it loads: the item a session before may have left in
\* localStorage, and the AuthProvider's first state.
ClientStart(item) ==
    Rendered(
    [open |-> TRUE, accessToken |-> item, user |-> None, loading |-> TRUE,
     error |-> "", mounted |-> FALSE, calls |-> {}, ncalls |-> 0,
     location |-> "/", last |-> [id |-> 0, op |-> "", outcome |-> "", sends |-> 0,
                                refreshes |-> 0],
     value |-> None])

\* No page is open.
NoClient == [ClientStart(NoItem) EXCEPT !.open = FALSE]

NoResponse == [op |-> "", status |-> 0, success |-> FALSE, message |-> "",
               data |-> None, cookies |-> NoCookies, req |-> None]

Init ==
    /\ users = <<>>
    /\ clock = 0
    /\ ticks = 0
    /\ reqs = {}
    /\ nreq = 0
    /\ resp = NoResponse
    /\ mail = {}
    /\ issued = {}
    /\ lastIssued = <<>>
    /\ accepted = <<>>
    /\ revoked = [logout |-> {}, password |-> {}]
    /\ limit = [requests |-> MaxRequests, inFlight |-> MaxInFlight]
    /\ handed = {}
    /\ notes = <<>>
    /\ client = NoClient

\* ---------------------------------------------------------------- helpers
CanStart == nreq < limit.requests /\ Cardinality(reqs) < limit.inFlight

\* The handler answers: the request leaves, its response is the last one.
Answer(op, req, r) ==
    resp' = [op |-> op, status |-> r.status, success |-> r.success,
             message |-> r.message,
             data |-> r.data, cookies |-> r.cookies, req |-> req]

\* A new request answered before its first await completes.
AnswerNow(op, req, r) ==
    /\ Answer(op, req, r)
    /\ nreq' = nreq + 1
    /\ UNCHANGED reqs

\* A new request that goes on to await `pc`.
Suspend(op, req, pc, locals) ==
    /\ reqs' = reqs \cup {[id |-> nreq + 1, op |-> op, req |-> req,
                           pc |-> pc, l |-> locals, wrote |-> FALSE]}
    /\ nreq' = nreq + 1
    /\ UNCHANGED resp

Resume(r, pc, locals) ==
    /\ reqs' = (reqs \ {r}) \cup {[r EXCEPT !.pc = pc, !.l = locals]}
    /\ UNCHANGED <<nreq, resp>>

\* The request goes on after a write to the database (history: wrote).
ResumeWritten(r, pc, locals) ==
    /\ reqs' = (reqs \ {r}) \cup {[r EXCEPT !.pc = pc, !.l = locals, !.wrote = TRUE]}
    /\ UNCHANGED <<nreq, resp>>

Finish(r, response) ==
    /\ reqs' = reqs \ {r}
    /\ Answer(r.op, r.req, response)
    /\ UNCHANGED nreq

\* generateTokens as the handlers call it, with the history it leaves.
Issue(tokens) ==
    /\ issued' = issued \cup {tokens.refreshToken}
    /\ lastIssued' = [u \in DOMAIN lastIssued \cup {tokens.refreshToken.userId} |->
                        IF u = tokens.refreshToken.userId
                        THEN tokens.refreshToken ELSE lastIssued[u]]
    /\ revoked' = [logout |-> revoked.logout \ {tokens.refreshToken},
                   password |-> revoked.password \ {tokens.refreshToken}]

NoIssue == UNCHANGED <<issued, lastIssued, revoked>>

\* ------------------------------------------------------------------ clock
TickSteps == {1000, RESET_TOKEN_EXPIRY_MS}

Tick ==
    /\ ticks < MaxTicks
    /\ \E d \in TickSteps : clock' = clock + d
    /\ ticks' = ticks + 1
    /\ UNCHANGED <<users, reqs, nreq, resp, mail, issued, lastIssued,
                   accepted, revoked, limit, client, notes, handed>>

\* ----------------------------------------------------------------- signup
\* The email schema path: required, match /^[^\s@]+@[^\s@]+\.[^\s@]+$/.
ValidEmail(email) == email \notin {"", "not-an-email"}

signup(name, email, password) ==
    /\ CanStart
    /\ LET req == [name |-> name, email |-> email, password |-> password] IN
       IF name = "" \/ email = "" \/ password = PwMissing
       THEN AnswerNow("signup", req,
                      sendError(400, "Please provide all required fields"))
       ELSE IF findByEmail(email) # {}
       THEN AnswerNow("signup", req,
                      sendError(400, "Email already registered"))
       ELSE IF Len(password) < MinPasswordLength
       THEN AnswerNow("signup", req,
                      sendError(400, "Password must be at least 8 characters long"))
       ELSE Suspend("signup", req, "create", None)
    /\ UNCHANGED <<users, clock, ticks, mail, accepted, limit, client, notes, handed>>
    /\ NoIssue

\* User.create, then generateTokens.
signupCreate(r) ==
    /\ r.op = "signup" /\ r.pc = "create"
    /\ IF ~ValidEmail(r.req.email)
       THEN /\ Finish(r, sendError(400, "Validation failed"))
            /\ UNCHANGED users
            /\ NoIssue
       ELSE IF findByEmail(r.req.email) # {}
       THEN \* the unique index on email: E11000
            /\ Finish(r, sendError(400, "Email already exists"))
            /\ UNCHANGED users
            /\ NoIssue
       ELSE LET id == Len(users) + 1
                tokens == generateTokens(id, clock) IN
            /\ users' = Append(users,
                   [name |-> r.req.name, email |-> r.req.email,
                    password |-> preSavePassword(r.req.password),
                    refreshToken |-> None,
                    resetPasswordToken |-> None,
                    resetPasswordExpire |-> NoDate])
            /\ Issue(tokens)
            /\ ResumeWritten(r, "save", [userId |-> id, tokens |-> tokens])
    /\ UNCHANGED <<clock, ticks, mail, accepted, limit, client, notes, handed>>

\* user.save() of the refresh token hash, cookies, 201.
signupSave(r) ==
    /\ r.op = "signup" /\ r.pc = "save"
    /\ users' = [users EXCEPT ![r.l.userId].refreshToken =
                                    hashToken(r.l.tokens.refreshToken)]
    /\ Finish(r, WithCookies(sendSuccess(201, "User registered successfully",
                   [userId |-> r.l.userId, accessToken |-> r.l.tokens.accessToken]),
                   setAuthCookies(r.l.tokens.accessToken, r.l.tokens.refreshToken)))
    /\ handed' = handed \cup {r.l.tokens.refreshToken}
    /\ UNCHANGED <<clock, ticks, mail, accepted, limit, client, notes>>
    /\ NoIssue

\* ------------------------------------------------------------------ login
\* A login that tells an unknown email from a wrong password.
loginCheck_Telling(email, password) ==
    IF email = "" \/ password = PwMissing
    THEN sendError(400, "Please provide email and password")
    ELSE IF findByEmail(email) = {}
    THEN sendError(401, "No account with that email")
    ELSE IF \E u \in findByEmail(email) : ~comparePassword(password, users[u].password)
    THEN sendError(401, "Invalid email or password")
    ELSE sendSuccess(200, "Login successful", None)

\* The outcome of login's lookup and password check on the stored users.
loginCheck(email, password) ==
    IF email = "" \/ password = PwMissing
    THEN sendError(400, "Please provide email and password")
    ELSE IF findByEmail(email) = {}
    THEN sendError(401, "Invalid email or password")
    ELSE IF \E u \in findByEmail(email) : ~comparePassword(password, users[u].password)
    THEN sendError(401, "Invalid email or password")
    ELSE sendSuccess(200, "Login successful", None)

login(email, password) ==
    /\ CanStart
    /\ LET req == [email |-> email, password |-> password]
           check == loginCheck(email, password) IN
       IF check.status # 200
       THEN /\ AnswerNow("login", req, check)
            /\ NoIssue
       ELSE \E u \in findByEmail(email) :
              LET tokens == generateTokens(u, clock) IN
              /\ Issue(tokens)
              /\ Suspend("login", req, "save", [userId |-> u, tokens |-> tokens])
    /\ UNCHANGED <<users, clock, ticks, mail, accepted, limit, client, notes, handed>>

loginSave(r) ==
    /\ r.op = "login" /\ r.pc = "save"
    /\ users' = [users EXCEPT ![r.l.userId].refreshToken =
                                    hashToken(r.l.tokens.refreshToken)]
    /\ Finish(r, WithCookies(sendSuccess(200, "Login successful",
                   [userId |-> r.l.userId, accessToken |-> r.l.tokens.accessToken]),
                   setAuthCookies(r.l.tokens.accessToken, r.l.tokens.refreshToken)))
    /\ handed' = handed \cup {r.l.tokens.refreshToken}
    /\ UNCHANGED <<clock, ticks, mail, accepted, limit, client, notes>>
    /\ NoIssue

\* ---------------------------------------------------------------- refresh
\* User.findOne({_id: decoded.userId, refreshToken: hashedToken})
findByRefreshToken(token) ==
    {u \in UserIds : u = token.userId /\ users[u].refreshToken = hashToken(token)}

\* What a client can present: a refresh token it was handed, a string that
\* is no token, or nothing.
RefreshInputs == handed \cup {BadToken, NoToken}

refreshToken(token) ==
    /\ CanStart
    /\ LET req == [refreshToken |-> token,
                   revokedByLogout |-> token \in revoked.logout,
                   revokedByPassword |-> token \in revoked.password] IN
       IF token = NoToken
       THEN /\ AnswerNow("refresh", req, sendError(401, "Refresh token not found"))
            /\ NoIssue
       ELSE IF ~verifyRefreshToken(token, clock)
       THEN /\ AnswerNow("refresh", req,
                         sendError(401, "Invalid or expired refresh token"))
            /\ NoIssue
       ELSE IF findByRefreshToken(token) = {}
       THEN /\ AnswerNow("refresh", req, sendError(401, "Invalid refresh token"))
            /\ NoIssue
       ELSE \E u \in findByRefreshToken(token) :
              LET tokens == generateTokens(u, clock) IN
              /\ Issue(tokens)
              /\ Suspend("refresh", req, "save", [userId |-> u, tokens |-> tokens])
    /\ UNCHANGED <<users, clock, ticks, mail, accepted, limit, client, notes, handed>>

refreshSave(r) ==
    /\ r.op = "refresh" /\ r.pc = "save"
    /\ users' = [users EXCEPT ![r.l.userId].refreshToken =
                                    hashToken(r.l.tokens.refreshToken)]
    /\ Finish(r, WithCookies(sendSuccess(200, "Token refreshed successfully",
                   [accessToken |-> r.l.tokens.accessToken]),
                   setAuthCookies(r.l.tokens.accessToken, r.l.tokens.refreshToken)))
    /\ accepted' = [t \in DOMAIN accepted \cup {r.req.refreshToken} |->
                      IF t = r.req.refreshToken
                      THEN (IF t \in DOMAIN accepted THEN accepted[t] + 1 ELSE 1)
                      ELSE accepted[t]]
    /\ handed' = handed \cup {r.l.tokens.refreshToken}
    /\ UNCHANGED <<clock, ticks, mail, limit, client, notes>>
    /\ NoIssue

\* ---------------------------------------------------------------- protect
NoHeader == [scheme |-> "", token |-> NoToken]
Bearer(token) == [scheme |-> "Bearer", token |-> token]

\* The token protect reads: the Authorization header when it starts with
\* 'Bearer' (its second word, which may be missing), otherwise the cookie.
protectToken(req) ==
    IF req.authorization.scheme = "Bearer" THEN req.authorization.token
    ELSE req.accessTokenCookie

protect(req) ==
    LET token == protectToken(req) IN
    IF token = NoToken
    THEN [next |-> FALSE, userId |-> 0,
          response |-> sendError(401, "Not authorized to access this route. Please login.")]
    ELSE IF ~verifyAccessToken(token, clock)
    THEN [next |-> FALSE, userId |-> 0,
          response |-> sendError(401, "Token is invalid or expired. Please login again.")]
    ELSE IF token.userId \notin UserIds
    THEN [next |-> FALSE, userId |-> 0,
          response |-> sendError(401, "User not found. Token is invalid.")]
    ELSE [next |-> TRUE, userId |-> token.userId, response |-> None]

\* The access token signed together with a refresh token.
AccessOf(refresh) ==
    [typ |-> "access", userId |-> refresh.userId, iat |-> refresh.iat,
     exp |-> refresh.iat + ACCESS_TOKEN_EXPIRY]

\* The credentials a client of the session handlers sends.
AuthInputs ==
    {[authorization |-> Bearer(AccessOf(t)), accessTokenCookie |-> NoToken] : t \in handed}
      \cup {[authorization |-> NoHeader, accessTokenCookie |-> NoToken]}

\* The refresh tokens a completed logout or password change of a user is meant
\* to end: those issued to the user so far, except the token of a login or
\* signup still in flight, which opens a session of its own.
OpeningSession ==
    {r.l.tokens.refreshToken : r \in {q \in reqs : q.op \in {"login", "signup"} /\ q.pc = "save"}}

Revoke(userId, cause) ==
    /\ revoked' = [revoked EXCEPT ![cause] =
                      @ \cup {t \in issued \ OpeningSession : t.userId = userId}]
    /\ UNCHANGED <<issued, lastIssued>>

\* ----------------------------------------------------------------- logout
logout(auth) ==
    /\ CanStart
    /\ LET p == protect(auth) IN
       IF ~p.next
       THEN AnswerNow("logout", [auth |-> auth, userId |-> p.userId], p.response)
       ELSE Suspend("logout", [auth |-> auth, userId |-> p.userId], "update",
                    [userId |-> p.userId])
    /\ UNCHANGED <<users, clock, ticks, mail, accepted, limit, client, notes, handed>>
    /\ NoIssue

\* User.findByIdAndUpdate(req.userId, {$unset: {refreshToken: 1}})
logoutUpdate(r) ==
    /\ r.op = "logout" /\ r.pc = "update"
    /\ users' = [users EXCEPT ![r.l.userId].refreshToken = None]
    /\ Finish(r, WithCookies(sendSuccess(200, "Logout successful", None), clearAuthCookies))
    /\ Revoke(r.l.userId, "logout")
    /\ UNCHANGED <<clock, ticks, mail, accepted, limit, client, notes, handed>>

\* --------------------------------------------------------- changePassword
changePassword(auth, currentPassword, newPassword) ==
    /\ CanStart
    /\ LET p == protect(auth)
           req == [auth |-> auth, userId |-> p.userId,
                   currentPassword |-> currentPassword,
                   newPassword |-> newPassword] IN
       IF ~p.next
       THEN AnswerNow("changePassword", req, p.response)
       ELSE IF currentPassword = PwMissing \/ newPassword = PwMissing
       THEN AnswerNow("changePassword", req,
                      sendError(400, "Please provide current and new password"))
       ELSE IF Len(newPassword) < MinPasswordLength
       THEN AnswerNow("changePassword", req,
                      sendError(400, "New password must be at least 8 characters long"))
       ELSE Suspend("changePassword", req, "find", [userId |-> p.userId])
    /\ UNCHANGED <<users, clock, ticks, mail, accepted, limit, client, notes, handed>>
    /\ NoIssue

\* changePassword that saves the new password before it compares the current
\* one.
changePasswordFind_SaveFirst(r) ==
    /\ r.op = "changePassword" /\ r.pc = "find"
    /\ IF r.l.userId \notin UserIds
       THEN Finish(r, sendError(404, "User not found")) /\ UNCHANGED users
       ELSE /\ users' = [users EXCEPT
                   ![r.l.userId].password = preSavePassword(r.req.newPassword)]
            /\ IF ~comparePassword(r.req.currentPassword, users[r.l.userId].password)
               THEN Finish(r, sendError(401, "Current password is incorrect"))
               ELSE ResumeWritten(r, "saveRefreshToken", r.l)
    /\ UNCHANGED <<clock, ticks, mail, accepted, limit, client, notes, handed>>
    /\ NoIssue

\* User.findById(req.userId).select('+password'), comparePassword
changePasswordFind(r) ==
    /\ r.op = "changePassword" /\ r.pc = "find"
    /\ IF r.l.userId \notin UserIds
       THEN Finish(r, sendError(404, "User not found"))
       ELSE IF ~comparePassword(r.req.currentPassword, users[r.l.userId].password)
       THEN Finish(r, sendError(401, "Current password is incorrect"))
       ELSE Resume(r, "savePassword", r.l)
    /\ UNCHANGED <<users, clock, ticks, mail, accepted, limit, client, notes, handed>>
    /\ NoIssue

\* user.password = newPassword; await user.save()
changePasswordSave(r) ==
    /\ r.op = "changePassword" /\ r.pc = "savePassword"
    /\ users' = [users EXCEPT ![r.l.userId].password = preSavePassword(r.req.newPassword)]
    /\ ResumeWritten(r, "saveRefreshToken", r.l)
    /\ UNCHANGED <<clock, ticks, mail, accepted, limit, client, notes, handed>>
    /\ NoIssue

\* user.refreshToken = undefined; await user.save(); clearAuthCookies
changePasswordClear(r) ==
    /\ r.op = "changePassword" /\ r.pc = "saveRefreshToken"
    /\ users' = [users EXCEPT ![r.l.userId].refreshToken = None]
    /\ Finish(r, WithCookies(sendSuccess(200, "Password changed successfully. Please log in again.",
                   None), clearAuthCookies))
    /\ Revoke(r.l.userId, "password")
    /\ UNCHANGED <<clock, ticks, mail, accepted, limit, client, notes, handed>>

\* --------------------------------------------------------- forgotPassword
\* getResetPasswordToken: a random 6-digit code, its hash, the expiry.
getResetPasswordToken(code, now) ==
    [resetToken |-> code,
     resetPasswordToken |-> hashToken(code),
     resetPasswordExpire |-> now + RESET_TOKEN_EXPIRY_MS]

forgotPassword(email) ==
    /\ CanStart
    /\ LET req == [email |-> email] IN
       IF email = ""
       THEN AnswerNow("forgotPassword", req,
                      sendError(400, "Please provide your email address"))
       ELSE IF findByEmail(email) = {}
       THEN AnswerNow("forgotPassword", req,
                      sendSuccess(200, "If an account exists with that email, a password reset token has been sent", None))
       ELSE \E u \in findByEmail(email), code \in ResetCodes :
              Suspend("forgotPassword", req, "save",
                      [userId |-> u, name |-> users[u].name,
                       reset |-> getResetPasswordToken(code, clock)])
    /\ UNCHANGED <<users, clock, ticks, mail, accepted, limit, client, notes, handed>>
    /\ NoIssue

\* await user.save({validateBeforeSave: false})
forgotPasswordSave(r) ==
    /\ r.op = "forgotPassword" /\ r.pc = "save"
    /\ users' = [users EXCEPT
                   ![r.l.userId].resetPasswordToken = r.l.reset.resetPasswordToken,
                   ![r.l.userId].resetPasswordExpire = r.l.reset.resetPasswordExpire]
    /\ ResumeWritten(r, "send", r.l)
    /\ UNCHANGED <<clock, ticks, mail, accepted, limit, client, notes, handed>>
    /\ NoIssue

\* await sendResetPasswordEmail(email, resetToken, user.name) resolves.
forgotPasswordSent(r) ==
    /\ r.op = "forgotPassword" /\ r.pc = "send"
    /\ mail' = mail \cup {[to |-> r.req.email, resetToken |-> r.l.reset.resetToken]}
    /\ Finish(r, sendSuccess(200, "Password reset token has been sent to your email", None))
    /\ UNCHANGED <<users, clock, ticks, accepted, limit, client, notes, handed>>
    /\ NoIssue

\* sendResetPasswordEmail throws: the handler goes on to clear the token.
forgotPasswordSendFailed(r) ==
    /\ r.op = "forgotPassword" /\ r.pc = "send"
    /\ Resume(r, "clear", r.l)
    /\ UNCHANGED <<users, clock, ticks, mail, accepted, limit, client, notes, handed>>
    /\ NoIssue

\* The catch block without the two assignments and the save.
forgotPasswordClear_KeepsToken(r) ==
    /\ r.op = "forgotPassword" /\ r.pc = "clear"
    /\ Finish(r, sendError(500, "Failed to send reset email. Please try again later."))
    /\ UNCHANGED <<users, clock, ticks, mail, accepted, limit, client, notes, handed>>
    /\ NoIssue

\* user.resetPasswordToken = undefined; user.resetPasswordExpire = undefined;
\* await user.save({validateBeforeSave: false}); sendError(res, 500, ...)
forgotPasswordClear(r) ==
    /\ r.op = "forgotPassword" /\ r.pc = "clear"
    /\ users' = [users EXCEPT ![r.l.userId].resetPasswordToken = None,
                              ![r.l.userId].resetPasswordExpire = NoDate]
    /\ Finish(r, sendError(500, "Failed to send reset email. Please try again later."))
    /\ UNCHANGED <<clock, ticks, mail, accepted, limit, client, notes, handed>>
    /\ NoIssue

\* ------------------------------------------ verifyResetToken / resetPassword
\* The lookup with $gte in place of $gt.
findByResetToken_NotStrict(token, now) ==
    {u \in UserIds :
        /\ users[u].resetPasswordToken = hashToken(token)
        /\ users[u].resetPasswordExpire # NoDate
        /\ users[u].resetPasswordExpire >= now}

\* User.findOne({resetPasswordToken: hashedToken,
\*               resetPasswordExpire: {$gt: Date.now()}})
findByResetToken(token, now) ==
    {u \in UserIds :
        /\ users[u].resetPasswordToken = hashToken(token)
        /\ users[u].resetPasswordExpire # NoDate
        /\ users[u].resetPasswordExpire > now}

verifyResetToken(token) ==
    /\ CanStart
    /\ LET req == [token |-> token] IN
       IF token = ""
       THEN AnswerNow("verifyResetToken", req,
                      sendError(400, "Please provide reset token"))
       ELSE IF findByResetToken(token, clock) = {}
       THEN AnswerNow("verifyResetToken", req,
                      sendError(400, "Invalid or expired reset token"))
       ELSE \E u \in findByResetToken(token, clock) :
              AnswerNow("verifyResetToken", req,
                        sendSuccess(200, "Token is valid", [email |-> users[u].email]))
    /\ UNCHANGED <<users, clock, ticks, mail, accepted, limit, client, notes, handed>>
    /\ NoIssue

resetPassword(token, newPassword, confirmPassword) ==
    /\ CanStart
    /\ LET req == [token |-> token, newPassword |-> newPassword,
                   confirmPassword |-> confirmPassword] IN
       IF token = "" \/ newPassword = PwMissing \/ confirmPassword = PwMissing
       THEN AnswerNow("resetPassword", req,
                      sendError(400, "Please provide all required fields"))
       ELSE IF newPassword # confirmPassword
       THEN AnswerNow("resetPassword", req, sendError(400, "Passwords do not match"))
       ELSE IF Len(newPassword) < MinPasswordLength
       THEN AnswerNow("resetPassword", req,
                      sendError(400, "Password must be at least 8 characters long"))
       ELSE IF findByResetToken(token, clock) = {}
       THEN AnswerNow("resetPassword", req,
                      sendError(400, "Invalid or expired reset token"))
       ELSE \E u \in findByResetToken(token, clock) :
              Suspend("resetPassword", req, "save", [userId |-> u])
    /\ UNCHANGED <<users, clock, ticks, mail, accepted, limit, client, notes, handed>>
    /\ NoIssue

\* user.password = newPassword, the three unsets, await user.save()
resetPasswordSave(r) ==
    /\ r.op = "resetPassword" /\ r.pc = "save"
    /\ users' = [users EXCEPT
                   ![r.l.userId].password = preSavePassword(r.req.newPassword),
                   ![r.l.userId].resetPasswordToken = None,
                   ![r.l.userId].resetPasswordExpire = NoDate,
                   ![r.l.userId].refreshToken = None]
    /\ Finish(r, sendSuccess(200, "Password has been reset successfully. Please log in with your new password.",
                   None))
    /\ Revoke(r.l.userId, "password")
    /\ UNCHANGED <<clock, ticks, mail, accepted, limit, client, notes, handed>>

\* ------------------------------------------------------------------ notes
\* Note ids a client can name: those of the first notes and one of no note.
MaxNoteId == 3

NoteIds == 1..MaxNoteId

\* A field the request does not carry is <<>>, a field it carries is <<value>>.
Undefined == <<>>

\* A title of 201 characters; every other string of the model is short.
LongTitle == "long"

TitleLength(title) == IF title = LongTitle THEN 201 ELSE 2

\* toLowerCase on the strings of the model.
Lower(text) == IF text = "T1" THEN "t1" ELSE text

\* $regex: search, $options: 'i' on a text: the strings of the model contain
\* one another only when they are equal up to case.
RegexMatches(search, text) == Lower(text) = Lower(search)

\* The binary collation of the strings notes hold, as a rank.
StringRank(text) ==
    CASE text = "T1" -> 1
      [] text = "c1" -> 2
      [] text = "c2" -> 3
      [] text = "t1" -> 4
      [] text = "t2" -> 5
      [] OTHER -> 0

LiveNotes == {i \in 1..Len(notes) : notes[i] # None}

\* The document as the response carries it.
NoteDoc(i) == [_id |-> i, note |-> notes[i]]

\* Note.findOne({_id: req.params.id, user: req.userId}) without the user.
findNote_AnyOwner(id, userId) == {i \in LiveNotes : i = id}

\* Note.findOne({_id: req.params.id, user: req.userId})
findNote(id, userId) == {i \in LiveNotes : i = id /\ notes[i].user = userId}

NoteReq(auth, p, input) == [auth |-> auth, userId |-> p.userId, input |-> input]

NoteNotFound == sendError(404, "Note not found")

\* The value sort() compares; a path no note has compares equal.
SortKey(i, sortBy) ==
    CASE sortBy = "createdAt" -> notes[i].createdAt
      [] sortBy = "title" -> StringRank(notes[i].title)
      [] sortBy = "content" -> StringRank(notes[i].content)
      [] sortBy = "isPinned" -> IF notes[i].isPinned THEN 1 ELSE 0
      [] OTHER -> 0

\* sort({[sortBy]: sortOrder === 'asc' ? 1 : -1}): every arrangement of the
\* ids in the order of their keys; the order of equal keys is not specified.
Sorted(S, sortBy, sortOrder) ==
    {f \in [1..Cardinality(S) -> S] :
        /\ \A j, k \in 1..Cardinality(S) : j # k => f[j] # f[k]
        /\ \A j, k \in 1..Cardinality(S) :
              j < k => IF sortOrder = "asc"
                       THEN SortKey(f[j], sortBy) <= SortKey(f[k], sortBy)
                       ELSE SortKey(f[j], sortBy) >= SortKey(f[k], sortBy)}

CeilDiv(a, b) == (a + b - 1) \div b

\* The filter without the default on isArchived.
getNotesQuery_NoDefault(userId, q) ==
    {i \in LiveNotes :
        /\ notes[i].user = userId
        /\ q.search # Undefined =>
              \/ RegexMatches(q.search[1], notes[i].title)
              \/ RegexMatches(q.search[1], notes[i].content)
        /\ q.tags # Undefined => notes[i].tags \cap q.tags[1] # {}
        /\ q.isPinned # Undefined => notes[i].isPinned = (q.isPinned[1] = "true")
        /\ q.isArchived # Undefined => notes[i].isArchived = (q.isArchived[1] = "true")}

\* The filter getNotes builds from req.query.
getNotesQuery(userId, q) ==
    {i \in LiveNotes :
        /\ notes[i].user = userId
        /\ q.search # Undefined =>
              \/ RegexMatches(q.search[1], notes[i].title)
              \/ RegexMatches(q.search[1], notes[i].content)
        /\ q.tags # Undefined => notes[i].tags \cap q.tags[1] # {}
        /\ q.isPinned # Undefined => notes[i].isPinned = (q.isPinned[1] = "true")
        /\ notes[i].isArchived =
              (IF q.isArchived # Undefined THEN q.isArchived[1] = "true" ELSE FALSE)}

getNotes(auth, q) ==
    /\ CanStart
    /\ LET p == protect(auth)
           req == NoteReq(auth, p, q) IN
       IF ~p.next
       THEN AnswerNow("getNotes", req, p.response)
       ELSE \E found \in Sorted(getNotesQuery(p.userId, q), q.sortBy, q.sortOrder) :
            LET skip == (q.page - 1) * q.limit
                total == Len(found)
                totalPages == CeilDiv(total, q.limit)
                page == SubSeq(found, skip + 1,
                               IF skip + q.limit < total THEN skip + q.limit ELSE total) IN
            AnswerNow("getNotes", req,
                sendSuccess(200, "Notes retrieved successfully",
                    [notes |-> [k \in 1..Len(page) |-> NoteDoc(page[k])],
                     pagination |-> [currentPage |-> q.page,
                                     totalPages |-> totalPages,
                                     totalNotes |-> total,
                                     hasMore |-> q.page < totalPages]]))
    /\ UNCHANGED <<users, clock, ticks, mail, accepted, limit, client, notes, handed>>
    /\ NoIssue

getNoteById(auth, id) ==
    /\ CanStart
    /\ LET p == protect(auth)
           req == NoteReq(auth, p, [id |-> id]) IN
       IF ~p.next
       THEN AnswerNow("getNoteById", req, p.response)
       ELSE IF findNote(id, p.userId) = {}
       THEN AnswerNow("getNoteById", req, NoteNotFound)
       ELSE AnswerNow("getNoteById", req,
                sendSuccess(200, "Note retrieved successfully", [note |-> NoteDoc(id)]))
    /\ UNCHANGED <<users, clock, ticks, mail, accepted, limit, client, notes, handed>>
    /\ NoIssue

createNote(auth, body) ==
    /\ CanStart
    /\ LET p == protect(auth)
           req == NoteReq(auth, p, body) IN
       IF ~p.next
       THEN AnswerNow("createNote", req, p.response) /\ UNCHANGED notes
       ELSE IF body.title \in {Undefined, <<"">>} \/ body.content \in {Undefined, <<"">>}
       THEN /\ AnswerNow("createNote", req,
                         sendError(400, "Title and content are required"))
            /\ UNCHANGED notes
       ELSE IF TitleLength(body.title[1]) > 200
       THEN /\ AnswerNow("createNote", req,
                         sendError(400, "Title cannot exceed 200 characters"))
            /\ UNCHANGED notes
       ELSE /\ notes' = Append(notes,
                   [title |-> body.title[1], content |-> body.content[1],
                    user |-> p.userId,
                    tags |-> IF body.tags = Undefined THEN {} ELSE body.tags[1],
                    color |-> "#ffffff",
                    isPinned |-> IF body.isPinned = Undefined THEN FALSE ELSE body.isPinned[1],
                    isArchived |-> FALSE,
                    createdAt |-> clock, updatedAt |-> clock])
            /\ AnswerNow("createNote", req,
                   sendSuccess(201, "Note created successfully",
                       [note |-> [_id |-> Len(notes) + 1, note |-> notes'[Len(notes) + 1]]]))
    /\ UNCHANGED <<users, clock, ticks, mail, accepted, limit, client, handed>>
    /\ NoIssue

\* The match validator of color: '#' and six or three hexadecimal digits.
ValidColor(color) == color \in {"#ffffff", "#ff0000", "#fff"}

\* ApplyUpdate that gives an absent isPinned the value false.
ApplyUpdate_PinDefault(note, body) ==
    [note EXCEPT !.isPinned = IF body.isPinned # Undefined THEN body.isPinned[1] ELSE FALSE]

\* if (x !== undefined) note.x = x, for each field of the body.
ApplyUpdate(note, body) ==
    [title |-> IF body.title # Undefined THEN body.title[1] ELSE note.title,
     content |-> IF body.content # Undefined THEN body.content[1] ELSE note.content,
     user |-> note.user,
     tags |-> IF body.tags # Undefined THEN body.tags[1] ELSE note.tags,
     color |-> IF body.color # Undefined THEN body.color[1] ELSE note.color,
     isPinned |-> IF body.isPinned # Undefined THEN body.isPinned[1] ELSE note.isPinned,
     isArchived |-> IF body.isArchived # Undefined THEN body.isArchived[1] ELSE note.isArchived,
     createdAt |-> note.createdAt, updatedAt |-> note.updatedAt]

\* SaveNote that leaves updatedAt as it was.
SaveNote_NoTimestamp(old, new) == new

\* note.save() with timestamps: true: a document with a modified path gets
\* updatedAt = now, an unmodified one is not written.
SaveNote(old, new) == IF new = old THEN old ELSE [new EXCEPT !.updatedAt = clock]

updateNote(auth, id, body) ==
    /\ CanStart
    /\ LET p == protect(auth)
           req == NoteReq(auth, p, [id |-> id, body |-> body]) IN
       IF ~p.next
       THEN AnswerNow("updateNote", req, p.response) /\ UNCHANGED notes
       ELSE IF findNote(id, p.userId) = {}
       THEN AnswerNow("updateNote", req, NoteNotFound) /\ UNCHANGED notes
       ELSE IF body.title # Undefined /\ TitleLength(body.title[1]) > 200
       THEN /\ AnswerNow("updateNote", req,
                         sendError(400, "Title cannot exceed 200 characters"))
            /\ UNCHANGED notes
       ELSE IF \/ body.title = <<"">> \/ body.content = <<"">>
               \/ body.color # Undefined /\ ~ValidColor(body.color[1])
       THEN \* note.save(): the required validators of title and content, and
            \* the match validator of color
            /\ AnswerNow("updateNote", req, sendError(400, "Validation failed"))
            /\ UNCHANGED notes
       ELSE /\ notes' = [notes EXCEPT ![id] = SaveNote(@, ApplyUpdate(@, body))]
            /\ AnswerNow("updateNote", req,
                   sendSuccess(200, "Note updated successfully",
                       [note |-> [_id |-> id, note |-> notes'[id]]]))
    /\ UNCHANGED <<users, clock, ticks, mail, accepted, limit, client, handed>>
    /\ NoIssue

\* Note.findOneAndDelete({_id: req.params.id, user: req.userId})
deleteNote(auth, id) ==
    /\ CanStart
    /\ LET p == protect(auth)
           req == NoteReq(auth, p, [id |-> id]) IN
       IF ~p.next
       THEN AnswerNow("deleteNote", req, p.response) /\ UNCHANGED notes
       ELSE IF findNote(id, p.userId) = {}
       THEN AnswerNow("deleteNote", req, NoteNotFound) /\ UNCHANGED notes
       ELSE /\ notes' = [notes EXCEPT ![id] = None]
            /\ AnswerNow("deleteNote", req,
                         sendSuccess(200, "Note deleted successfully", None))
    /\ UNCHANGED <<users, clock, ticks, mail, accepted, limit, client, handed>>
    /\ NoIssue

togglePin(auth, id) ==
    /\ CanStart
    /\ LET p == protect(auth)
           req == NoteReq(auth, p, [id |-> id]) IN
       IF ~p.next
       THEN AnswerNow("togglePin", req, p.response) /\ UNCHANGED notes
       ELSE IF findNote(id, p.userId) = {}
       THEN AnswerNow("togglePin", req, NoteNotFound) /\ UNCHANGED notes
       ELSE /\ notes' = [notes EXCEPT ![id] = SaveNote(@, [@ EXCEPT !.isPinned = ~@])]
            /\ AnswerNow("togglePin", req,
                   sendSuccess(200,
                       IF notes'[id].isPinned THEN "Note pinned successfully"
                                              ELSE "Note unpinned successfully",
                       [note |-> [_id |-> id, note |-> notes'[id]]]))
    /\ UNCHANGED <<users, clock, ticks, mail, accepted, limit, client, handed>>
    /\ NoIssue

toggleArchive(auth, id) ==
    /\ CanStart
    /\ LET p == protect(auth)
           req == NoteReq(auth, p, [id |-> id]) IN
       IF ~p.next
       THEN AnswerNow("toggleArchive", req, p.response) /\ UNCHANGED notes
       ELSE IF findNote(id, p.userId) = {}
       THEN AnswerNow("toggleArchive", req, NoteNotFound) /\ UNCHANGED notes
       ELSE /\ notes' = [notes EXCEPT ![id] = SaveNote(@, [@ EXCEPT !.isArchived = ~@])]
            /\ AnswerNow("toggleArchive", req,
                   sendSuccess(200,
                       IF notes'[id].isArchived THEN "Note archived successfully"
                                                ELSE "Note unarchived successfully",
                       [note |-> [_id |-> id, note |-> notes'[id]]]))
    /\ UNCHANGED <<users, clock, ticks, mail, accepted, limit, client, handed>>
    /\ NoIssue

\* $match without the user.
StatsMatch_AllUsers(userId) == LiveNotes

\* { $match: { user: userId } }
StatsMatch(userId) == {i \in LiveNotes : notes[i].user = userId}

\* The two aggregations: $match {user: userId}, then the counts and the tags.
getNotesStats(auth) ==
    /\ CanStart
    /\ LET p == protect(auth)
           req == NoteReq(auth, p, None) IN
       IF ~p.next
       THEN AnswerNow("getNotesStats", req, p.response)
       ELSE LET own == StatsMatch(p.userId)
                tags == UNION {notes[i].tags : i \in own} IN
            AnswerNow("getNotesStats", req,
                sendSuccess(200, "Statistics retrieved successfully",
                    [stats |->
                        [total |-> Cardinality(own),
                         pinned |-> Cardinality({i \in own : notes[i].isPinned}),
                         archived |-> Cardinality({i \in own : notes[i].isArchived}),
                         active |-> Cardinality({i \in own : ~notes[i].isArchived})],
                     topTags |->
                        {[tag |-> t,
                          count |-> Cardinality({i \in own : t \in notes[i].tags})] :
                            t \in tags}]))
    /\ UNCHANGED <<users, clock, ticks, mail, accepted, limit, client, notes, handed>>
    /\ NoIssue

\* deleteMany without the user.
deleteManyFilter_AnyOwner(ids, userId) == {i \in LiveNotes : i \in ids}

\* The filter {_id: {$in: noteIds}, user: req.userId}
deleteManyFilter(ids, userId) == {i \in LiveNotes : i \in ids /\ notes[i].user = userId}

\* Note.deleteMany({_id: {$in: noteIds}, user: req.userId})
deleteMultipleNotes(auth, noteIds) ==
    /\ CanStart
    /\ LET p == protect(auth)
           req == NoteReq(auth, p, [noteIds |-> noteIds]) IN
       IF ~p.next
       THEN AnswerNow("deleteMultipleNotes", req, p.response) /\ UNCHANGED notes
       ELSE IF noteIds = Undefined \/ ~noteIds[1].isArray \/ noteIds[1].elems = {}
       THEN /\ AnswerNow("deleteMultipleNotes", req,
                         sendError(400, "Please provide an array of note IDs"))
            /\ UNCHANGED notes
       ELSE LET gone == deleteManyFilter(noteIds[1].elems, p.userId) IN
            /\ notes' = [i \in 1..Len(notes) |-> IF i \in gone THEN None ELSE notes[i]]
            /\ AnswerNow("deleteMultipleNotes", req,
                   sendSuccess(200, "note(s) deleted successfully",
                               [deletedCount |-> Cardinality(gone)]))
    /\ UNCHANGED <<users, clock, ticks, mail, accepted, limit, client, handed>>
    /\ NoIssue

\* ---------------------------------------------------- getMe / updateProfile
getMe(auth) ==
    /\ CanStart
    /\ LET p == protect(auth)
           req == [auth |-> auth, userId |-> p.userId] IN
       IF ~p.next
       THEN AnswerNow("getMe", req, p.response)
       ELSE IF p.userId \notin UserIds
       THEN AnswerNow("getMe", req, sendError(404, "User not found"))
       ELSE AnswerNow("getMe", req,
                sendSuccess(200, "User profile retrieved successfully",
                    [user |-> [id |-> p.userId, name |-> users[p.userId].name,
                               email |-> users[p.userId].email]]))
    /\ UNCHANGED <<users, clock, ticks, mail, accepted, limit, client, notes, handed>>
    /\ NoIssue

updateProfile(auth, name, email) ==
    /\ CanStart
    /\ LET p == protect(auth)
           req == [auth |-> auth, userId |-> p.userId, name |-> name, email |-> email] IN
       IF ~p.next
       THEN AnswerNow("updateProfile", req, p.response) /\ UNCHANGED users
       ELSE IF p.userId \notin UserIds
       THEN AnswerNow("updateProfile", req, sendError(404, "User not found"))
              /\ UNCHANGED users
       ELSE IF email # "" /\ ~ValidEmail(email)
       THEN AnswerNow("updateProfile", req, sendError(400, "Validation failed"))
              /\ UNCHANGED users
       ELSE IF email # "" /\ findByEmail(email) \ {p.userId} # {}
       THEN \* the unique index on email: E11000
            AnswerNow("updateProfile", req, sendError(400, "Email already exists"))
              /\ UNCHANGED users
       ELSE /\ users' = [users EXCEPT
                   ![p.userId].name = IF name # "" THEN name ELSE @,
                   ![p.userId].email = IF email # "" THEN email ELSE @]
            /\ AnswerNow("updateProfile", req,
                   sendSuccess(200, "Profile updated successfully",
                       [user |-> [id |-> p.userId, name |-> users'[p.userId].name,
                                  email |-> users'[p.userId].email]]))
    /\ UNCHANGED <<clock, ticks, mail, accepted, limit, client, notes, handed>>
    /\ NoIssue

\* ------------------------------------------------------- what clients send
NoteBodies ==
    {[title |-> <<"t1">>, content |-> <<"c1">>, tags |-> Undefined, isPinned |-> Undefined],
     [title |-> <<"T1">>, content |-> <<"c1">>, tags |-> <<{"work"}>>, isPinned |-> <<TRUE>>],
     [title |-> Undefined, content |-> <<"c1">>, tags |-> Undefined, isPinned |-> Undefined],
     [title |-> <<LongTitle>>, content |-> <<"c1">>, tags |-> Undefined, isPinned |-> Undefined]}

NoteUpdates ==
    {[title |-> <<"t2">>, content |-> Undefined, tags |-> Undefined, color |-> Undefined,
      isPinned |-> Undefined, isArchived |-> Undefined],
     [title |-> Undefined, content |-> <<"c2">>, tags |-> <<{"home"}>>, color |-> Undefined,
      isPinned |-> <<TRUE>>, isArchived |-> <<TRUE>>],
     [title |-> <<LongTitle>>, content |-> Undefined, tags |-> Undefined, color |-> Undefined,
      isPinned |-> Undefined, isArchived |-> Undefined],
     [title |-> <<"">>, content |-> Undefined, tags |-> Undefined, color |-> Undefined,
      isPinned |-> Undefined, isArchived |-> Undefined],
     [title |-> Undefined, content |-> Undefined, tags |-> Undefined, color |-> <<"#ff0000">>,
      isPinned |-> Undefined, isArchived |-> Undefined],
     [title |-> <<"t2">>, content |-> Undefined, tags |-> Undefined, color |-> <<"red">>,
      isPinned |-> Undefined, isArchived |-> Undefined]}

DefaultQuery ==
    [search |-> Undefined, tags |-> Undefined, isPinned |-> Undefined,
     isArchived |-> Undefined, sortBy |-> "createdAt", sortOrder |-> "desc",
     page |-> 1, limit |-> 50]

NotesQueries ==
    {DefaultQuery,
     [search |-> <<"t1">>, tags |-> Undefined, isPinned |-> Undefined,
      isArchived |-> <<"true">>, sortBy |-> "createdAt", sortOrder |-> "asc",
      page |-> 1, limit |-> 50],
     [search |-> <<"T1">>, tags |-> Undefined, isPinned |-> Undefined,
      isArchived |-> Undefined, sortBy |-> "title", sortOrder |-> "desc",
      page |-> 1, limit |-> 1],
     [search |-> Undefined, tags |-> <<{"work", "home"}>>, isPinned |-> <<"true">>,
      isArchived |-> <<"false">>, sortBy |-> "createdAt", sortOrder |-> "desc",
      page |-> 1, limit |-> 1],
     [search |-> Undefined, tags |-> Undefined, isPinned |-> <<"false">>,
      isArchived |-> Undefined, sortBy |-> "isPinned", sortOrder |-> "asc",
      page |-> 2, limit |-> 1],
     [search |-> Undefined, tags |-> Undefined, isPinned |-> Undefined,
      isArchived |-> Undefined, sortBy |-> "title", sortOrder |-> "asc",
      page |-> 2, limit |-> 1],
     [search |-> Undefined, tags |-> Undefined, isPinned |-> Undefined,
      isArchived |-> Undefined, sortBy |-> "content", sortOrder |-> "desc",
      page |-> 1, limit |-> 2]}

\* noteIds of the body: absent, a value that is not an array, or an array.
NoteIdSets ==
    {Undefined, <<[isArray |-> FALSE, elems |-> {}]>>}
      \cup {<<[isArray |-> TRUE, elems |-> S]>> : S \in {{}, {1}, NoteIds}}

\* A valid access token for a user id that is in no document of the
\* collection.
AccessOfNoUser ==
    [typ |-> "access", userId |-> Len(users) + 1, iat |-> NowSeconds(clock),
     exp |-> NowSeconds(clock) + ACCESS_TOKEN_EXPIRY]

\* Every way a request can carry, or fail to carry, an access token.
ProtectInputs ==
    UNION {{[authorization |-> Bearer(AccessOf(t)), accessTokenCookie |-> NoToken],
            [authorization |-> NoHeader, accessTokenCookie |-> AccessOf(t)],
            [authorization |-> Bearer(BadToken), accessTokenCookie |-> AccessOf(t)],
            [authorization |-> Bearer(NoToken), accessTokenCookie |-> AccessOf(t)],
            [authorization |-> [scheme |-> "Basic", token |-> AccessOf(t)],
             accessTokenCookie |-> NoToken],
            [authorization |-> Bearer(t), accessTokenCookie |-> NoToken]} :
           t \in handed}
      \cup {[authorization |-> NoHeader, accessTokenCookie |-> NoToken],
            [authorization |-> NoHeader, accessTokenCookie |-> BadToken],
            [authorization |-> Bearer(AccessOfNoUser), accessTokenCookie |-> NoToken]}

\* ------------------------------------------------------------------- Next
Register ==
    \/ \E i \in SignupInputs : signup(i.name, i.email, i.password)
    \/ \E r \in reqs : signupCreate(r)
    \/ \E r \in reqs : signupSave(r)

\* The session handlers: signup, login, refresh, logout, change-password.
Next ==
    \/ Tick
    \/ Register
    \/ \E i \in LoginInputs : login(i.email, i.password)
    \/ \E r \in reqs : loginSave(r)
    \/ \E t \in RefreshInputs : refreshToken(t)
    \/ \E r \in reqs : refreshSave(r)
    \/ \E a \in AuthInputs : logout(a)
    \/ \E r \in reqs : logoutUpdate(r)
    \/ \E a \in AuthInputs, i \in ChangePasswordInputs :
          changePassword(a, i.currentPassword, i.newPassword)
    \/ \E r \in reqs : changePasswordFind(r)
    \/ \E r \in reqs : changePasswordSave(r)
    \/ \E r \in reqs : changePasswordClear(r)

Spec == Init /\ [][Next]_vars

\* The password-reset handlers, with signup, one request at a time.
InitReset ==
    /\ users = <<>>
    /\ clock = 0
    /\ ticks = 0
    /\ reqs = {}
    /\ nreq = 0
    /\ resp = NoResponse
    /\ mail = {}
    /\ issued = {}
    /\ lastIssued = <<>>
    /\ accepted = <<>>
    /\ revoked = [logout |-> {}, password |-> {}]
    /\ limit = [requests |-> MaxRequests, inFlight |-> 1]
    /\ handed = {}
    /\ notes = <<>>
    /\ client = NoClient

NextReset ==
    \/ Tick
    \/ Register
    \/ \E e \in ForgotPasswordInputs : forgotPassword(e)
    \/ \E r \in reqs : forgotPasswordSave(r)
    \/ \E r \in reqs : forgotPasswordSent(r)
    \/ \E r \in reqs : forgotPasswordSendFailed(r)
    \/ \E r \in reqs : forgotPasswordClear(r)
    \/ \E t \in ResetTokenInputs : verifyResetToken(t)
    \/ \E i \in ResetPasswordInputs :
          resetPassword(i.token, i.newPassword, i.confirmPassword)
    \/ \E r \in reqs : resetPasswordSave(r)

SpecReset == InitReset /\ [][NextReset]_vars

\* signup and login, requests interleaving at their awaits.
NextAccounts ==
    \/ Register
    \/ \E i \in IllFormedSignups : signup(i.name, i.email, i.password)
    \/ \E i \in LoginInputs : login(i.email, i.password)
    \/ \E r \in reqs : loginSave(r)

SpecAccounts == Init /\ [][NextAccounts]_vars

\* The notes routes, with signup, one request at a time.
NextNotes ==
    \/ Register
    \/ \E a \in AuthInputs, q \in NotesQueries : getNotes(a, q)
    \/ \E a \in AuthInputs, id \in NoteIds : getNoteById(a, id)
    \/ \E a \in AuthInputs, b \in NoteBodies : createNote(a, b)
    \/ \E a \in AuthInputs, id \in NoteIds, b \in NoteUpdates : updateNote(a, id, b)
    \/ \E a \in AuthInputs, id \in NoteIds : deleteNote(a, id)
    \/ \E a \in AuthInputs, id \in NoteIds : togglePin(a, id)
    \/ \E a \in AuthInputs, id \in NoteIds : toggleArchive(a, id)
    \/ \E a \in AuthInputs : getNotesStats(a)
    \/ \E a \in AuthInputs, ids \in NoteIdSets : deleteMultipleNotes(a, ids)

SpecNotes == InitReset /\ [][NextNotes]_vars

\* The handlers that write one note, with signup and the clock, one request
\* at a time.
FieldSignups == {i \in SignupInputs : i.name # "" /\ ValidEmail(i.email) /\ i.password = PwOld}

FieldBodies == {b \in NoteBodies : b.title \in {<<"t1">>, <<"T1">>}}

\* The ids of the stored notes, and one id of no note.
FieldNoteIds == {i \in NoteIds : i <= Len(notes) + 1}

NextNoteFields ==
    \/ Tick
    \/ \E i \in FieldSignups : signup(i.name, i.email, i.password)
    \/ \E r \in reqs : signupCreate(r)
    \/ \E r \in reqs : signupSave(r)
    \/ \E a \in AuthInputs, b \in FieldBodies : createNote(a, b)
    \/ \E a \in AuthInputs, id \in FieldNoteIds, b \in NoteUpdates : updateNote(a, id, b)
    \/ \E a \in AuthInputs, id \in FieldNoteIds : togglePin(a, id)
    \/ \E a \in AuthInputs, id \in FieldNoteIds : toggleArchive(a, id)

InitNoteFields ==
    /\ users = <<>>
    /\ clock = 0
    /\ ticks = 0
    /\ reqs = {}
    /\ nreq = 0
    /\ resp = NoResponse
    /\ mail = {}
    /\ issued = {}
    /\ lastIssued = <<>>
    /\ accepted = <<>>
    /\ revoked = [logout |-> {}, password |-> {}]
    /\ limit = [requests |-> MaxFieldRequests, inFlight |-> 1]
    /\ handed = {}
    /\ notes = <<>>
    /\ client = NoClient

SpecNoteFields == InitNoteFields /\ [][NextNoteFields]_vars

\* Every route behind protect, with signup and the clock, one request at a
\* time, each carrying its access token in every way a request can.
NextProtect ==
    \/ Tick
    \/ Register
    \/ \E a \in ProtectInputs : logout(a)
    \/ \E r \in reqs : logoutUpdate(r)
    \/ \E a \in ProtectInputs : getMe(a)
    \/ \E a \in ProtectInputs : updateProfile(a, "Bob", "")
    \/ \E a \in ProtectInputs : changePassword(a, PwOld, PwNew)
    \/ \E r \in reqs : changePasswordFind(r)
    \/ \E r \in reqs : changePasswordSave(r)
    \/ \E r \in reqs : changePasswordClear(r)
    \/ \E a \in ProtectInputs : getNotes(a, DefaultQuery)
    \/ \E a \in ProtectInputs : getNoteById(a, 1)
    \/ \E a \in ProtectInputs :
           createNote(a, [title |-> <<"t1">>, content |-> <<"c1">>,
                          tags |-> Undefined, isPinned |-> Undefined])
    \/ \E a \in ProtectInputs :
           updateNote(a, 1, [title |-> <<"t2">>, content |-> Undefined,
                             tags |-> Undefined, color |-> Undefined,
                             isPinned |-> Undefined, isArchived |-> Undefined])
    \/ \E a \in ProtectInputs : deleteNote(a, 1)
    \/ \E a \in ProtectInputs : togglePin(a, 1)
    \/ \E a \in ProtectInputs : toggleArchive(a, 1)
    \/ \E a \in ProtectInputs : getNotesStats(a)
    \/ \E a \in ProtectInputs : deleteMultipleNotes(a, <<[isArray |-> TRUE, elems |-> {1}]>>)

InitProtect ==
    /\ users = <<>>
    /\ clock = 0
    /\ ticks = 0
    /\ reqs = {}
    /\ nreq = 0
    /\ resp = NoResponse
    /\ mail = {}
    /\ issued = {}
    /\ lastIssued = <<>>
    /\ accepted = <<>>
    /\ revoked = [logout |-> {}, password |-> {}]
    /\ limit = [requests |-> MaxProtectRequests, inFlight |-> 1]
    /\ handed = {}
    /\ notes = <<>>
    /\ client = NoClient

SpecProtect == InitProtect /\ [][NextProtect]_vars

-----------------------------------------------------------------------------
\* ------------------------------------------------------------- the browser
AccessTokens == {"at1", "at2"}

ClientUsers == {[id |-> "1", name |-> "Ann", email |-> "a@x.io"]}

\* const noRefreshUrls = [...]
noRefreshUrls ==
    {"/auth/login", "/auth/signup", "/auth/refresh", "/auth/forgot-password",
     "/auth/verify-reset-token", "/auth/reset-password"}

\* noRefreshUrls.some(url => originalRequest.url?.includes(url)): the urls of
\* the calls are the paths of lib/api.ts, none has another as a part.
isNoRefreshUrl(url) == url \in noRefreshUrls

\* The path each function of authAPI (and a page's list of notes) requests.
UrlOf(op) ==
    CASE op = "checkAuth" -> "/auth/me"
      [] op = "login" -> "/auth/login"
      [] op = "signup" -> "/auth/signup"
      [] op = "logout" -> "/auth/logout"
      [] op = "updateProfile" -> "/auth/update-profile"
      [] OTHER -> "/notes"

\* What the server answers: a 2xx with the data of the body, or an error with
\* a status.
ErrorStatuses == {401, 500}

ResponseData(op) ==
    CASE op \in {"login", "signup"} ->
             {[user |-> u, accessToken |-> "at1"] : u \in ClientUsers}
               \cup {[user |-> None, accessToken |-> NoItem]}
      [] op \in {"checkAuth", "updateProfile"} ->
             {[user |-> u, accessToken |-> NoItem] : u \in ClientUsers \cup {None}}
      [] OTHER -> {[user |-> None, accessToken |-> NoItem]}

\* The request interceptor and the send: Authorization from localStorage.
StartCall(cl, op) ==
    [cl EXCEPT !.ncalls = @ + 1,
               !.calls = @ \cup {[id |-> cl.ncalls + 1, op |-> op, url |-> UrlOf(op),
                                  retry |-> FALSE, pc |-> "sent",
                                  authorization |-> cl.accessToken,
                                  sends |-> 1, refreshes |-> 0]}]

\* The finally block that runs only after a successful logout call.
logoutFinally_OnSuccess(cl, outcome) ==
    IF outcome = "resolved" THEN [cl EXCEPT !.accessToken = NoItem, !.user = None] ELSE cl

\* logout: finally { localStorage.removeItem('accessToken'); setUser(null) }
logoutFinally(cl, outcome) == [cl EXCEPT !.accessToken = NoItem, !.user = None]

\* The code after the await of each function of the AuthProvider, for a call
\* that resolved with `data` or was rejected.
Continue(cl, c, outcome, data) ==
    CASE c.op = "checkAuth" ->
             IF outcome = "resolved" /\ data.user # None
             THEN [cl EXCEPT !.user = data.user, !.loading = FALSE]
             ELSE [cl EXCEPT !.accessToken = NoItem, !.user = None, !.loading = FALSE]
      [] c.op \in {"login", "signup"} ->
             IF outcome = "resolved"
             THEN [cl EXCEPT
                     !.accessToken = IF data.accessToken # NoItem THEN data.accessToken ELSE @,
                     !.user = IF data.user # None THEN data.user ELSE @]
             ELSE [cl EXCEPT !.error = "failed"]
      [] c.op = "logout" -> logoutFinally(cl, outcome)
      [] c.op = "updateProfile" ->
             IF outcome = "resolved"
             THEN [cl EXCEPT !.user = data.user]
             ELSE [cl EXCEPT !.error = "failed"]
      [] OTHER -> cl

\* The promise of the call settles and the function that awaited it goes on.
Settle(cl, c, outcome, data) ==
    LET done == [cl EXCEPT !.calls = @ \ {c},
                           !.last = [id |-> c.id, op |-> c.op, outcome |-> outcome,
                                     sends |-> c.sends, refreshes |-> c.refreshes]]
    IN  Rendered(Continue(done, c, outcome, data))

\* The interceptor that does not mark the request.
MarkRetry_Forgotten(c) == c

\* originalRequest._retry = true
MarkRetry(c) == [c EXCEPT !.retry = TRUE]

\* A user opens the page.
OpenPage ==
    /\ ~client.open
    /\ \E item \in {"at1", NoItem} : client' = ClientStart(item)
    /\ UNCHANGED serverVars

\* useEffect(() => { checkAuth() }, [])
checkAuth ==
    /\ client.open /\ ~client.mounted
    /\ client' =
          IF client.accessToken # NoItem
          THEN StartCall([client EXCEPT !.mounted = TRUE], "checkAuth")
          ELSE Rendered([client EXCEPT !.mounted = TRUE, !.user = None, !.loading = FALSE])
    /\ UNCHANGED serverVars

\* login, signup, logout, updateProfile of the context, and a page's request
\* for the notes, up to their await.
ClientOps == {"login", "signup", "logout", "updateProfile", "getNotes"}

CallApi(op) ==
    /\ client.open /\ client.ncalls < MaxCalls
    /\ client' =
          Rendered(StartCall(IF op \in {"login", "signup", "updateProfile"}
                             THEN [client EXCEPT !.error = ""] ELSE client, op))
    /\ UNCHANGED serverVars

\* clearError: setError(null)
clearError ==
    /\ client.open /\ client.error # ""
    /\ client' = Rendered([client EXCEPT !.error = ""])
    /\ UNCHANGED serverVars

\* The response interceptor, for the answer to a request: (response) =>
\* response, or the error handler up to the await of the refresh.
Respond(c) ==
    /\ client.open /\ c \in client.calls /\ c.pc = "sent"
    /\ \/ \E data \in ResponseData(c.op) :
            client' = Settle(client, c, "resolved", data)
       \/ \E status \in ErrorStatuses :
            IF status = 401 /\ ~c.retry /\ ~isNoRefreshUrl(c.url)
            THEN client' = [client EXCEPT !.calls = (@ \ {c}) \cup
                               {[MarkRetry(c) EXCEPT !.pc = "refresh",
                                                     !.refreshes = @ + 1]}]
            ELSE client' = Settle(client, c, "rejected", None)
    /\ UNCHANGED serverVars

\* What axios.post(`${API_BASE_URL}/auth/refresh`) brings: a token, a 2xx
\* without a token, or an error.
RefreshResults == {"at2", NoItem, "error"}

\* The error handler after the await of the refresh: the new token is stored
\* and the request sent again, or the token is removed, the page sent to
\* /login and the error passed on.
Refreshed(c) ==
    /\ client.open /\ c \in client.calls /\ c.pc = "refresh"
    /\ \E result \in RefreshResults :
          IF result \in AccessTokens
          THEN client' = [client EXCEPT
                            !.accessToken = result,
                            !.calls = (@ \ {c}) \cup
                               {[c EXCEPT !.pc = "sent", !.authorization = result,
                                          !.sends = @ + 1]}]
          ELSE client' = Settle([client EXCEPT !.accessToken = NoItem,
                                               !.location = "/login"],
                                c, "rejected", None)
    /\ UNCHANGED serverVars

NextClient ==
    \/ OpenPage
    \/ checkAuth
    \/ \E op \in ClientOps : CallApi(op)
    \/ clearError
    \/ \E c \in client.calls : Respond(c)
    \/ \E c \in client.calls : Refreshed(c)

SpecClient == Init /\ [][NextClient]_vars

\* ------------------------------------------- the queueing client (api.ts)
\* let accessToken = null; let isRefreshing = false; let failedQueue = [];
\* `calls` holds the pending calls made through `api` with their place (pc),
\* `last` the last thing that happened with the calls it sent again and the
\* calls it rejected (history).
QueueStart ==
    [accessToken |-> NoItem, isRefreshing |-> FALSE, failedQueue |-> <<>>,
     calls |-> {}, ncalls |-> 0, dispatched |-> FALSE,
     last |-> [id |-> 0, event |-> "", token |-> NoItem, again |-> {},
               rejected |-> {}]]

setAccessToken(cl, token) == [cl EXCEPT !.accessToken = token]

\* Request interceptor: if (accessToken) config.headers.Authorization = ...
requestInterceptor(cl, header) ==
    IF cl.accessToken # NoItem THEN cl.accessToken ELSE header

Place(cl, id, pc) ==
    [cl EXCEPT !.calls = {IF c.id = id THEN [c EXCEPT !.pc = pc] ELSE c : c \in @}]

\* The promise of the call settles: resolved, or rejected to the caller.
Leave(cl, id, outcome) ==
    [cl EXCEPT !.calls = {c \in @ : c.id # id},
               !.last.rejected = IF outcome = "rejected" THEN @ \cup {id} ELSE @]

\* api(originalRequest) with the Authorization header set to `token`.
SendAgain(cl, id, token) ==
    [cl EXCEPT !.last.again = @ \cup {id},
               !.calls = {IF c.id = id
                          THEN [c EXCEPT !.pc = "sent",
                                         !.authorization = requestInterceptor(cl, token)]
                          ELSE c : c \in @}]

RECURSIVE forEach(_, _, _, _)
\* failedQueue.forEach(prom => error ? prom.reject(error) : prom.resolve(token))
\* with what the promise of each entry does next.
forEach(cl, queue, error, token) ==
    IF queue = <<>> THEN cl
    ELSE forEach(IF error THEN Leave(cl, Head(queue), "rejected")
                 ELSE SendAgain(cl, Head(queue), token),
                 Tail(queue), error, token)

\* processQueue that leaves the entries in failedQueue.
processQueue_KeepsQueue(cl, error, token) ==
    forEach(cl, cl.failedQueue, error, token)

processQueue(cl, error, token) ==
    [forEach(cl, cl.failedQueue, error, token) EXCEPT !.failedQueue = <<>>]

\* History: the event the step handles.
Event(cl, id, event, token) ==
    [cl EXCEPT !.last = [id |-> id, event |-> event, token |-> token, again |-> {},
                         rejected |-> {}]]

\* authAPI.login, logout, getMe: api.post / api.get. login stands for register
\* and refreshToken too: a post, then setAccessToken of the token it brings.
apiCall(op) ==
    /\ client.ncalls < MaxQueueCalls
    /\ client' = [Event(client, client.ncalls + 1, "call", NoItem) EXCEPT
                     !.ncalls = @ + 1,
                     !.calls = @ \cup {[id |-> client.ncalls + 1, op |-> op,
                                        retry |-> FALSE, pc |-> "sent",
                                        authorization |->
                                            requestInterceptor(client, NoItem)]}]
    /\ UNCHANGED serverVars

\* The code of authAPI after its await, for a call that resolved.
authAPIResolved(cl, c, token) ==
    CASE c.op = "login" -> setAccessToken(cl, token)
      [] c.op = "logout" -> setAccessToken(cl, NoItem)
      [] OTHER -> cl

\* The response interceptor for the answer to a request: (response) =>
\* response, or the error handler up to the await of the refresh.
apiRespond(c) ==
    /\ c \in client.calls /\ c.pc = "sent"
    /\ \/ \E token \in IF c.op = "login" THEN {"at1"} ELSE {NoItem} :
            client' = authAPIResolved(Leave(Event(client, c.id, "200", token),
                                            c.id, "resolved"), c, token)
       \/ \E status \in {"401", "500"} :
            LET cl == Event(client, c.id, status, NoItem) IN
            IF status = "401" /\ ~c.retry
            THEN IF client.isRefreshing
                 THEN client' = [Place(cl, c.id, "queued") EXCEPT
                                    !.failedQueue = Append(@, c.id)]
                 ELSE client' = [cl EXCEPT
                                    !.isRefreshing = TRUE,
                                    !.calls = (@ \ {c}) \cup
                                       {[c EXCEPT !.retry = TRUE, !.pc = "refresh"]}]
            ELSE client' = Leave(cl, c.id, "rejected")
    /\ UNCHANGED serverVars

\* What axios.post(`${API_BASE_URL}/auth/refresh`) brings: a token or an error.
QueueRefreshResults == {"at2", "error"}

\* The error handler after the await of the refresh: try, catch and finally.
apiRefreshed(c) ==
    /\ c \in client.calls /\ c.pc = "refresh"
    /\ \E result \in QueueRefreshResults :
          IF result # "error"
          THEN LET cl == setAccessToken(Event(client, c.id, "refreshed", result), result) IN
               client' = [SendAgain(processQueue(cl, FALSE, result), c.id, result)
                            EXCEPT !.isRefreshing = FALSE]
          ELSE LET cl == processQueue(Event(client, c.id, "refresh failed", NoItem),
                                      TRUE, NoItem) IN
               client' = [Leave(setAccessToken(cl, NoItem), c.id, "rejected")
                            EXCEPT !.dispatched = TRUE, !.isRefreshing = FALSE]
    /\ UNCHANGED serverVars

NextQueue ==
    \/ \E op \in {"login", "logout", "getMe"} : apiCall(op)
    \/ \E c \in client.calls : apiRespond(c)
    \/ \E c \in client.calls : apiRefreshed(c)

InitQueue ==
    /\ users = <<>>
    /\ clock = 0
    /\ ticks = 0
    /\ reqs = {}
    /\ nreq = 0
    /\ resp = NoResponse
    /\ mail = {}
    /\ issued = {}
    /\ lastIssued = <<>>
    /\ accepted = <<>>
    /\ revoked = [logout |-> {}, password |-> {}]
    /\ limit = [requests |-> 0, inFlight |-> 0]
    /\ handed = {}
    /\ notes = <<>>
    /\ client = QueueStart

SpecQueue == InitQueue /\ [][NextQueue]_vars

\* Every route of the server, one request at a time, at one instant.
NextStore ==
    \/ \E i \in {x \in SignupInputs : x.password = PwOld /\ x.email # ""} :
          signup(i.name, i.email, i.password)
    \/ \E r \in reqs : signupCreate(r)
    \/ \E r \in reqs : signupSave(r)
    \/ \E i \in {x \in LoginInputs : x.email \in {"a@x.io", ""} /\ x.password # PwDollar} :
          login(i.email, i.password)
    \/ \E r \in reqs : loginSave(r)
    \/ \E t \in RefreshInputs : refreshToken(t)
    \/ \E r \in reqs : refreshSave(r)
    \/ \E a \in AuthInputs : logout(a)
    \/ \E r \in reqs : logoutUpdate(r)
    \/ \E a \in AuthInputs : getMe(a)
    \/ \E a \in AuthInputs, i \in {[name |-> "Bob", email |-> ""],
                                 [name |-> "", email |-> "b@x.io"],
                                 [name |-> "", email |-> "not-an-email"]} :
          updateProfile(a, i.name, i.email)
    \/ \E a \in AuthInputs,
          i \in {x \in ChangePasswordInputs : x.currentPassword # PwMissing} :
          changePassword(a, i.currentPassword, i.newPassword)
    \/ \E r \in reqs : changePasswordFind(r)
    \/ \E r \in reqs : changePasswordSave(r)
    \/ \E r \in reqs : changePasswordClear(r)
    \/ \E e \in {"a@x.io", "nobody@x.io"} : forgotPassword(e)
    \/ \E r \in reqs : forgotPasswordSave(r)
    \/ \E r \in reqs : forgotPasswordSent(r)
    \/ \E r \in reqs : forgotPasswordSendFailed(r)
    \/ \E r \in reqs : forgotPasswordClear(r)
    \/ \E t \in ResetTokenInputs : verifyResetToken(t)
    \/ \E i \in {x \in ResetPasswordInputs : x.newPassword # PwDollar} : resetPassword(i.token, i.newPassword, i.confirmPassword)
    \/ \E r \in reqs : resetPasswordSave(r)
    \/ \E a \in AuthInputs : getNotes(a, DefaultQuery)
    \/ \E a \in AuthInputs, id \in FieldNoteIds : getNoteById(a, id)
    \/ \E a \in AuthInputs, b \in {x \in NoteBodies : x.title \in {<<"t1">>, Undefined}} :
          createNote(a, b)
    \/ \E a \in AuthInputs, id \in FieldNoteIds,
          b \in {x \in NoteUpdates : x.title \in {<<"t2">>, <<LongTitle>>}} :
          updateNote(a, id, b)
    \/ \E a \in AuthInputs, id \in FieldNoteIds : deleteNote(a, id)
    \/ \E a \in AuthInputs, id \in FieldNoteIds : togglePin(a, id)
    \/ \E a \in AuthInputs, id \in FieldNoteIds : toggleArchive(a, id)
    \/ \E a \in AuthInputs : getNotesStats(a)
    \/ \E a \in AuthInputs, ids \in {Undefined, <<[isArray |-> TRUE, elems |-> {1}]>>} :
          deleteMultipleNotes(a, ids)

InitStore ==
    /\ users = <<>>
    /\ clock = 0
    /\ ticks = 0
    /\ reqs = {}
    /\ nreq = 0
    /\ resp = NoResponse
    /\ mail = {}
    /\ issued = {}
    /\ lastIssued = <<>>
    /\ accepted = <<>>
    /\ revoked = [logout |-> {}, password |-> {}]
    /\ limit = [requests |-> MaxStoreRequests, inFlight |-> 1]
    /\ handed = {}
    /\ notes = <<>>
    /\ client = NoClient

SpecStore == InitStore /\ [][NextStore]_vars

\* Signup and the password reset for well-formed requests, one request at a
\* time: enough requests for two users to ask for a reset before a token is
\* presented.
NextResetCodes ==
    \/ \E i \in FieldSignups : signup(i.name, i.email, i.password)
    \/ \E r \in reqs : signupCreate(r)
    \/ \E r \in reqs : signupSave(r)
    \/ \E e \in Emails : forgotPassword(e)
    \/ \E r \in reqs : forgotPasswordSave(r)
    \/ \E r \in reqs : forgotPasswordSent(r)
    \/ \E r \in reqs : forgotPasswordSendFailed(r)
    \/ \E r \in reqs : forgotPasswordClear(r)
    \/ \E t \in ResetCodes : verifyResetToken(t)
    \/ \E i \in {[token |-> t, newPassword |-> PwNew, confirmPassword |-> PwNew] :
                 t \in ResetCodes} : resetPassword(i.token, i.newPassword, i.confirmPassword)
    \/ \E r \in reqs : resetPasswordSave(r)

InitResetCodes ==
    /\ users = <<>>
    /\ clock = 0
    /\ ticks = 0
    /\ reqs = {}
    /\ nreq = 0
    /\ resp = NoResponse
    /\ mail = {}
    /\ issued = {}
    /\ lastIssued = <<>>
    /\ accepted = <<>>
    /\ revoked = [logout |-> {}, password |-> {}]
    /\ limit = [requests |-> MaxCodeRequests, inFlight |-> 1]
    /\ handed = {}
    /\ notes = <<>>
    /\ client = NoClient

SpecResetCodes == InitResetCodes /\ [][NextResetCodes]_vars



-----------------------------------------------------------------------------
\* C1. Refresh tokens rotate: a refresh presenting T replaces the stored hash,
\* so each issued refresh token is accepted by at most one refresh request,
\* however the refresh requests interleave.
C1_RefreshTokenAcceptedOnce ==
    \A t \in DOMAIN accepted : accepted[t] <= 1

\* C2. Whenever no request is in flight, a user's refreshToken field is absent
\* or is hashToken of the refresh token issued to that user last.
C2_StoredHashIsLastIssued ==
    reqs = {} =>
        \A u \in UserIds :
            \/ users[u].refreshToken = None
            \/ u \in DOMAIN lastIssued
                 /\ users[u].refreshToken = hashToken(lastIssued[u])

\* C5. A refresh request that starts after a logout of the user completed and
\* presents a refresh token issued to that user before the logout is never
\* answered 200.
C5_NoRefreshAfterLogout ==
    ~(resp.op = "refresh" /\ resp.status = 200 /\ resp.req.revokedByLogout)

\* C6. A refresh request that starts after a password change of the user
\* completed and presents a refresh token issued before it is never answered
\* 200.
C6_NoRefreshAfterPasswordChange ==
    ~(resp.op = "refresh" /\ resp.status = 200 /\ resp.req.revokedByPassword)
\* ------------------------------------------------------ password reset claims
\* The status and the JSON body of a response.
Body(r) == [status |-> r.status, success |-> r.success, message |-> r.message,
            data |-> r.data]

\* The step starts a request of handler `op` and answers it at once.
AnswersNow(op) == nreq' = nreq + 1 /\ reqs' = reqs /\ resp'.op = op

\* The requests the step starts and leaves in flight.
Started(op) == {r \in reqs' \ reqs : r.op = op /\ r.id = nreq + 1}

\* Some user's stored reset token is the hash of `token` and its expiry is
\* strictly later than the clock.
ResetTokenValid(token) ==
    \E u \in UserIds :
        /\ users[u].resetPasswordToken = [sha256 |-> token]
        /\ users[u].resetPasswordExpire # NoDate
        /\ users[u].resetPasswordExpire > clock

C3_VerifyStep ==
    AnswersNow("verifyResetToken") /\ resp'.req.token # "" =>
        IF ResetTokenValid(resp'.req.token)
        THEN resp'.status = 200
        ELSE resp'.status = 400 /\ resp'.message = "Invalid or expired reset token"

C3_ResetStep ==
    /\ AnswersNow("resetPassword") /\ resp'.req.token # ""
          /\ resp'.req.newPassword # PwMissing
          /\ resp'.req.newPassword = resp'.req.confirmPassword
          /\ Len(resp'.req.newPassword) >= 8 =>
            /\ ~ResetTokenValid(resp'.req.token)
            /\ resp'.status = 400
            /\ resp'.message = "Invalid or expired reset token"
    /\ \A r \in Started("resetPassword") :
            /\ ResetTokenValid(r.req.token)
            /\ users[r.l.userId].resetPasswordToken = [sha256 |-> r.req.token]
            /\ users[r.l.userId].resetPasswordExpire > clock
    /\ \A r \in reqs \ reqs' :
            r.op = "resetPassword" => resp'.op = "resetPassword" /\ resp'.status = 200

\* A generated token expires ten minutes after its generation, and what is
\* stored is what was generated.
C3_ExpiryStep ==
    /\ \A r \in Started("forgotPassword") :
            /\ r.l.reset.resetPasswordExpire = clock + 10 * 60 * 1000
            /\ r.l.reset.resetPasswordToken = [sha256 |-> r.l.reset.resetToken]
    /\ \A u \in UserIds :
            /\ users'[u].resetPasswordExpire # users[u].resetPasswordExpire
            /\ users'[u].resetPasswordExpire # NoDate
            => \E r \in reqs :
                  /\ r.op = "forgotPassword" /\ r.l.userId = u
                  /\ users'[u].resetPasswordExpire = r.l.reset.resetPasswordExpire
                  /\ users'[u].resetPasswordToken = r.l.reset.resetPasswordToken

\* C3 (amended). verify-reset-token and reset-password, given a token string
\* and (reset-password) fields that pass validation, accept exactly when the
\* token's SHA-256 hash is some user's stored resetPasswordToken and that
\* user's resetPasswordExpire is strictly later than the current time, and
\* otherwise answer 400 'Invalid or expired reset token'; the expiry stored is
\* the generation time plus ten minutes.
C3_ResetTokenAcceptance ==
    [][C3_VerifyStep /\ C3_ResetStep /\ C3_ExpiryStep]_vars

\* C3, witness: verify-reset-token rejected a token whose hash is stored, at
\* the very millisecond of its expiry.
C3_Witness ==
    /\ resp.op = "verifyResetToken" /\ resp.status = 400
    /\ resp.message = "Invalid or expired reset token"
    /\ \E u \in UserIds :
          /\ users[u].resetPasswordToken = hashToken(resp.req.token)
          /\ users[u].resetPasswordExpire = clock

\* C3 as stated: whenever verify-reset-token or reset-password does not accept,
\* the answer is 400 'Invalid or expired reset token'.
C3_AsStated ==
    resp.op \in {"verifyResetToken", "resetPassword"} /\ resp.status # 200 =>
        resp.status = 400 /\ resp.message = "Invalid or expired reset token"
\* C7. When reset-password or change-password answers 200, the user's password
\* is the new one: a login with the new password succeeds and a login with any
\* other password is answered 401.
C7_Step ==
    \A r \in reqs \ reqs' :
        /\ r.op \in {"resetPassword", "changePassword"}
        /\ resp'.op = r.op /\ resp'.status = 200
        => LET email == users[r.l.userId].email IN
           /\ loginCheck(email, r.req.newPassword)'.status = 200
           /\ \A p \in Passwords \ {r.req.newPassword, PwMissing} :
                  loginCheck(email, p)'.status = 401

C7_LoginWithNewPassword == [][C7_Step]_vars

\* C9. forgot-password for an email that matches no user is answered at once
\* with 200 and success = true, sends no email and changes no user document; a
\* missing email is answered 400 'Please provide your email address'; only a
\* request whose email matches a user goes on to store a token and send mail.
C9_Step ==
    /\ AnswersNow("forgotPassword") =>
          IF resp'.req.email = ""
          THEN /\ resp'.status = 400
               /\ resp'.message = "Please provide your email address"
          ELSE /\ \A u \in UserIds : users[u].email # resp'.req.email
               /\ resp'.status = 200 /\ resp'.success = TRUE
               /\ mail' = mail
               /\ users' = users
    /\ \A r \in Started("forgotPassword") :
          /\ r.req.email # ""
          /\ \E u \in UserIds : users[u].email = r.req.email
    /\ \A m \in mail' \ mail : \E u \in UserIds : users[u].email = m.to

C9_ForgotPasswordUnknownEmail == [][C9_Step]_vars

\* C9, witness: with a user registered, forgot-password for an email of no
\* user was answered 200.
C9_Witness ==
    /\ resp.op = "forgotPassword" /\ resp.status = 200 /\ resp.success
    /\ resp.req.email = "nobody@x.io"
    /\ Len(users) >= 1
    /\ \A u \in UserIds : users[u].email # resp.req.email
    /\ mail = {}

\* C10. Two forgot-password requests with an email, answered one after the
\* other with the mail delivered, get the same status and the same body,
\* whether or not their emails belong to a user.
C10_Step ==
    /\ resp.op = "forgotPassword" /\ resp'.op = "forgotPassword"
    /\ resp.req.email # "" /\ resp'.req.email # ""
    /\ resp.status # 500 /\ resp'.status # 500
    => Body(resp') = Body(resp)

C10_ForgotPasswordSameAnswer == [][C10_Step]_vars
\* ------------------------------------------------------------ notes claims
NoteOps ==
    {"getNotes", "getNoteById", "createNote", "updateNote", "deleteNote",
     "togglePin", "toggleArchive", "getNotesStats", "deleteMultipleNotes"}

NoteByIdOps ==
    {"getNoteById", "updateNote", "deleteNote", "togglePin", "toggleArchive"}

OwnedBy(userId) == {i \in 1..Len(notes) : notes[i] # None /\ notes[i].user = userId}

\* A handler of a note by id, run for a requester who does not own the note,
\* answers 404 'Note not found', as for an id of no note, and changes nothing.
C4_ForeignNoteStep ==
    \A op \in NoteByIdOps :
        /\ AnswersNow(op) /\ resp'.req.userId # 0
        /\ resp'.req.input.id \notin OwnedBy(resp'.req.userId)
        => /\ Body(resp') = [status |-> 404, success |-> FALSE,
                             message |-> "Note not found", data |-> None]
           /\ notes' = notes

\* Only its owner's request creates, changes or deletes a note.
C4_ModifyStep ==
    /\ \A i \in 1..Len(notes) :
          notes'[i] # notes[i] =>
              /\ notes[i] # None
              /\ nreq' = nreq + 1 /\ resp'.op \in NoteOps
              /\ resp'.req.userId = notes[i].user
    /\ \A i \in (Len(notes) + 1)..Len(notes') :
          /\ nreq' = nreq + 1 /\ resp'.op = "createNote"
          /\ notes'[i].user = resp'.req.userId

\* What a response carries is the requester's own: the notes, the counts.
C4_ReadStep ==
    /\ \A op \in NoteByIdOps \cup {"createNote"} :
          AnswersNow(op) /\ resp'.data # None =>
              resp'.data.note.note.user = resp'.req.userId
    /\ AnswersNow("getNotes") /\ resp'.status = 200 =>
          \A k \in 1..Len(resp'.data.notes) :
              /\ resp'.data.notes[k]._id \in OwnedBy(resp'.req.userId)
              /\ resp'.data.notes[k].note.user = resp'.req.userId
    /\ AnswersNow("getNotes") /\ resp'.status = 200 =>
          resp'.data.pagination.totalNotes <= Cardinality(OwnedBy(resp'.req.userId))
    /\ AnswersNow("getNotesStats") /\ resp'.status = 200 =>
          /\ resp'.data.stats.total = Cardinality(OwnedBy(resp'.req.userId))
          /\ \A t \in resp'.data.topTags :
                t.count = Cardinality({i \in OwnedBy(resp'.req.userId) :
                                          t.tag \in notes[i].tags})
    /\ AnswersNow("deleteMultipleNotes") /\ resp'.status = 200 =>
          resp'.data.deletedCount =
              Cardinality(OwnedBy(resp'.req.userId) \cap resp'.req.input.noteIds[1].elems)

\* C4. Notes are per-user: getNoteById, updateNote, deleteNote, togglePin and
\* toggleArchive on a note of another owner answer 404 'Note not found', as for
\* an id of no note, and leave the note unchanged; no request made as one user
\* reads or modifies a note owned by another.
C4_NotesPerUser == [][C4_ForeignNoteStep /\ C4_ModifyStep /\ C4_ReadStep]_vars

\* C4, witness: a user's update of a note that exists and is owned by another
\* user was answered 404.
C4_Witness ==
    /\ resp.op = "updateNote" /\ resp.status = 404
    /\ resp.req.userId # 0
    /\ resp.req.input.id \in 1..Len(notes)
    /\ notes[resp.req.input.id] # None
    /\ notes[resp.req.input.id].user # resp.req.userId

\* ---------------------------------------------------------- protect claims
ProtectedOps == NoteOps \cup {"logout", "getMe", "updateProfile", "changePassword"}

\* The token of the Authorization header when its scheme is Bearer, otherwise
\* the accessToken cookie.
CarriedToken(auth) ==
    IF auth.authorization.scheme = "Bearer" THEN auth.authorization.token
    ELSE auth.accessTokenCookie

\* The token is signed with the access secret, unexpired, and names a user.
Authorized(auth) ==
    /\ CarriedToken(auth).typ = "access"
    /\ clock \div 1000 < CarriedToken(auth).exp
    /\ CarriedToken(auth).userId \in 1..Len(users)

C8_Step ==
    \A op \in ProtectedOps :
        /\ AnswersNow(op) =>
              IF Authorized(resp'.req.auth)
              THEN /\ resp'.req.userId = CarriedToken(resp'.req.auth).userId
                   /\ resp'.status # 401
              ELSE /\ resp'.status = 401
                   /\ resp'.req.userId = 0
                   /\ UNCHANGED <<users, notes, mail>>
        /\ \A r \in Started(op) :
              /\ Authorized(r.req.auth)
              /\ r.req.userId = CarriedToken(r.req.auth).userId

\* C8. protect lets the handler run only for a request whose access token (of a
\* Bearer Authorization header first, otherwise of the accessToken cookie)
\* verifies against the access secret, is unexpired and names an existing
\* user, and otherwise answers 401 with the handler not run; every notes
\* handler and logout, me, update-profile and change-password go through it.
C8_ProtectGuardsHandlers == [][C8_Step]_vars

\* C8, witness: a request carrying an expired access token of an existing user
\* was answered 401.
C8_Witness ==
    /\ resp.op \in ProtectedOps /\ resp.status = 401
    /\ CarriedToken(resp.req.auth).typ = "access"
    /\ CarriedToken(resp.req.auth).userId \in UserIds
    /\ CarriedToken(resp.req.auth).exp <= NowSeconds(clock)
\* ----------------------------------------------------------- signup claims
\* The requests of handler `op` that the step answers.
Finished(op) == {r \in reqs : r.op = op /\ \A q \in reqs' : q.id # r.id}

\* A field is missing, the email is registered, or the password is short.
SignupRefused(req) ==
    \/ req.name = "" \/ req.email = "" \/ req.password = <<>>
    \/ \E u \in UserIds : users[u].email = req.email
    \/ Len(req.password) < 8

C11_RefuseStep ==
    /\ AnswersNow("signup") =>
          /\ SignupRefused(resp'.req)
          /\ resp'.status = 400
          /\ users' = users
          /\ resp'.cookies = NoCookies
    /\ \A r \in Started("signup") : ~SignupRefused(r.req) /\ users' = users
    /\ \A r \in Finished("signup") :
          resp'.status = 400 =>
              /\ users' = users
              /\ resp'.cookies = NoCookies
              /\ \/ r.req.email = "not-an-email"
                 \/ \E u \in UserIds : users[u].email = r.req.email

C11_CreateStep ==
    /\ Len(users') # Len(users) =>
          /\ Len(users') = Len(users) + 1
          /\ \E r \in reqs :
                /\ r.op = "signup" /\ r.pc = "create"
                /\ users'[Len(users')].email = r.req.email
                /\ users'[Len(users')].name = r.req.name
                /\ \A u \in UserIds : users[u].email # r.req.email
    /\ \A r \in Finished("signup") :
          resp'.status # 400 =>
              /\ resp'.status = 201
              /\ Len(users') = Len(users)
              /\ users[r.l.userId].email = r.req.email
              /\ users'[r.l.userId].refreshToken = [sha256 |-> resp'.cookies.refreshToken]
              /\ resp'.cookies.refreshToken.typ = "refresh"
              /\ resp'.cookies.refreshToken.userId = r.l.userId
              /\ resp'.data.accessToken = resp'.cookies.accessToken
              /\ resp'.data.accessToken.typ = "access"
              /\ resp'.data.accessToken.userId = r.l.userId
    /\ \A r \in reqs :
          /\ r.op = "signup" /\ r.pc = "create" /\ r \notin reqs'
          /\ r.req.email # "not-an-email"
          /\ \A u \in UserIds : users[u].email # r.req.email
          => Len(users') = Len(users) + 1 /\ Finished("signup") = {}

\* C11 (amended). signup answers 400, creates no user, stores no refresh token
\* and sets no cookie when a field is missing, the email is registered or the
\* password is shorter than 8, and also when the email is ill-formed or was
\* registered by another signup in the meantime; otherwise it creates exactly
\* one user, stores the hash of the refresh token it issues and answers 201
\* with the access token.
C11_Signup == [][C11_RefuseStep /\ C11_CreateStep]_vars

\* C11, witness: a second user was registered, 201, with the hash of the
\* refresh token of the cookie stored.
C11_Witness ==
    /\ resp.op = "signup" /\ resp.status = 201
    /\ Len(users) = 2
    /\ users[2].email = resp.req.email
    /\ users[2].refreshToken = hashToken(resp.cookies.refreshToken)

\* C11 as stated: a signup with every field given and a password of 8
\* characters or more is answered 400 only for a registered email, with
\* 'Email already registered'.
C11_AsStated ==
    /\ resp.op = "signup" /\ resp.status = 400
    /\ resp.req.name # "" /\ resp.req.email # "" /\ Len(resp.req.password) >= 8
    => resp.message = "Email already registered"
\* ------------------------------------------------------------ login claims
\* The email is of no user, or the password is not the user's.
BadCredentials(req) ==
    \/ \A u \in UserIds : users[u].email # req.email
    \/ \E u \in UserIds :
          users[u].email = req.email /\ users[u].password # [bcrypt |-> req.password]

C12_Step ==
    /\ AnswersNow("login") /\ resp'.req.email # "" /\ resp'.req.password # <<>> =>
          /\ BadCredentials(resp'.req)
          /\ Body(resp') = [status |-> 401, success |-> FALSE,
                            message |-> "Invalid email or password", data |-> None]
          /\ resp'.cookies = NoCookies
    /\ AnswersNow("login") => resp'.status \in {400, 401} /\ users' = users
    /\ \A r \in Started("login") : ~BadCredentials(r.req) /\ users' = users
    /\ resp.op = "login" /\ resp'.op = "login"
          /\ resp.status = 401 /\ resp'.status = 401 => Body(resp') = Body(resp)

\* C12. login answers 401 'Invalid email or password', with the same body,
\* both for an email of no user and for a wrong password, and a login that
\* fails changes no user document, the stored refresh token included.
C12_LoginFailuresAlike == [][C12_Step]_vars

\* C12, witness: a login with the wrong password for a user who has a stored
\* refresh token was answered 401.
C12_Witness ==
    /\ resp.op = "login" /\ resp.status = 401
    /\ \E u \in UserIds :
          /\ users[u].email = resp.req.email
          /\ users[u].password # bcryptHash(resp.req.password)
          /\ users[u].refreshToken # None
\* ---------------------------------------------------------- getNotes claims
\* The reference filter: the requester's notes, archived or not as asked (not,
\* when not asked), pinned or not when asked, with one of the tags when asked,
\* with the search text in title or content whatever the case when asked.
C13_Matching(req) ==
    {i \in 1..Len(notes) :
        /\ notes[i] # None
        /\ notes[i].user = req.userId
        /\ notes[i].isArchived = (req.input.isArchived = <<"true">>)
        /\ req.input.isPinned # <<>> =>
              notes[i].isPinned = (req.input.isPinned = <<"true">>)
        /\ req.input.tags # <<>> => \E t \in req.input.tags[1] : t \in notes[i].tags
        /\ req.input.search # <<>> =>
              \/ Lower(notes[i].title) = Lower(req.input.search[1])
              \/ Lower(notes[i].content) = Lower(req.input.search[1])}

\* Note a may stand before note b in the order asked for.
C13_InOrder(a, b, q) ==
    IF q.sortOrder = "asc" THEN SortKey(a, q.sortBy) <= SortKey(b, q.sortBy)
    ELSE SortKey(a, q.sortBy) >= SortKey(b, q.sortBy)

C13_Step ==
    AnswersNow("getNotes") /\ resp'.status = 200 =>
        LET q == resp'.req.input
            M == C13_Matching(resp'.req)
            total == Cardinality(M)
            skip == (q.page - 1) * q.limit
            page == resp'.data.notes
            ids == {page[k]._id : k \in 1..Len(page)}
            pages == CHOOSE n \in 0..total :
                        n * q.limit >= total /\ (n = 0 \/ (n - 1) * q.limit < total)
        IN
        /\ Len(page) = IF total <= skip THEN 0
                       ELSE IF total - skip < q.limit THEN total - skip ELSE q.limit
        /\ Cardinality(ids) = Len(page)
        /\ \A k \in 1..Len(page) :
              page[k]._id \in M /\ page[k].note = notes[page[k]._id]
        /\ \A j, k \in 1..Len(page) : j < k => C13_InOrder(page[j]._id, page[k]._id, q)
        /\ \E before \in SUBSET (M \ ids) :
              /\ Cardinality(before) = IF total <= skip THEN total ELSE skip
              /\ \A b \in before, x \in M \ before : C13_InOrder(b, x, q)
              /\ \A x \in ids, a \in (M \ before) \ ids : C13_InOrder(x, a, q)
        /\ resp'.data.pagination =
              [currentPage |-> q.page, totalPages |-> pages, totalNotes |-> total,
               hasMore |-> q.page < pages]
        /\ notes' = notes

OwnRequest(op) ==
    /\ AnswersNow(op) /\ resp'.req.userId # 0
    /\ resp'.req.input.id \in OwnedBy(resp'.req.userId)

\* A toggle of an owned note answers 200, negates `path` of that note, sets
\* its updatedAt to the time of the request and changes nothing else.
C14_ToggleStep(op, path) ==
    OwnRequest(op) =>
        LET id == resp'.req.input.id IN
        /\ resp'.status = 200
        /\ notes'[id][path] = ~notes[id][path]
        /\ notes' = [notes EXCEPT ![id] = [@ EXCEPT ![path] = ~@, !.updatedAt = clock]]

C14_Step ==
    /\ C14_ToggleStep("togglePin", "isPinned")
    /\ C14_ToggleStep("toggleArchive", "isArchived")

\* C14. togglePin on a note owned by the requester flips isPinned, and
\* toggleArchive flips isArchived; the toggle changes no other field of that
\* note but updatedAt, which becomes the time of the request, and changes no
\* other note. (Two successive toggles so restore the flag.)
C14_ToggleFlipsOneField == [][C14_Step]_vars

\* C14, witness: a note created earlier was pinned by togglePin at a later
\* time.
C14_Witness ==
    /\ resp.op = "togglePin" /\ resp.status = 200
    /\ resp.data.note.note.isPinned
    /\ resp.data.note.note.updatedAt > resp.data.note.note.createdAt

C14_AsStatedStep ==
    \A op \in {"togglePin", "toggleArchive"} :
        OwnRequest(op) =>
            \A i \in 1..Len(notes), f \in {"title", "content", "tags", "isPinned",
                                           "isArchived", "user", "createdAt", "updatedAt"} :
                (notes[i] # None /\ notes'[i][f] # notes[i][f]) =>
                    /\ i = resp'.req.input.id
                    /\ f = (IF op = "togglePin" THEN "isPinned" ELSE "isArchived")

\* C14 as stated: a toggle changes no field of the note but the flag, and no
\* other note.
C14_AsStated == [][C14_AsStatedStep]_vars

\* The fields updateNote takes from the body.
UpdateFields == {"title", "content", "tags", "color", "isPinned", "isArchived"}

\* The save of the update is refused by a validator of the schema.
UpdateInvalid(body) ==
    \/ body.title = <<"">> \/ body.content = <<"">>
    \/ body.color # Undefined /\ body.color[1] \notin {"#ffffff", "#ff0000", "#fff"}

\* updateNote of an authenticated requester: 404 and no change for a note
\* that is not the requester's; 400 and no change for a title of more than 200
\* characters or a body the schema refuses; otherwise 200, the fields of the
\* body set, updatedAt set to the time of the request if a value changed, and
\* nothing else changed.
C17_Step ==
    (AnswersNow("updateNote") /\ resp'.req.userId # 0) =>
        LET id == resp'.req.input.id
            body == resp'.req.input.body IN
        IF id \notin OwnedBy(resp'.req.userId)
        THEN resp'.status = 404 /\ resp'.message = "Note not found" /\ notes' = notes
        ELSE IF body.title # Undefined /\ TitleLength(body.title[1]) > 200
        THEN /\ resp'.status = 400
             /\ resp'.message = "Title cannot exceed 200 characters"
             /\ notes' = notes
        ELSE IF UpdateInvalid(body)
        THEN resp'.status = 400 /\ resp'.message = "Validation failed" /\ notes' = notes
        ELSE /\ resp'.status = 200
             /\ \A i \in 1..Len(notes) : i # id => notes'[i] = notes[i]
             /\ Len(notes') = Len(notes)
             /\ \A f \in UpdateFields :
                    notes'[id][f] = IF body[f] # Undefined THEN body[f][1] ELSE notes[id][f]
             /\ notes'[id].user = notes[id].user
             /\ notes'[id].createdAt = notes[id].createdAt
             /\ notes'[id].updatedAt =
                    IF \E f \in UpdateFields : notes'[id][f] # notes[id][f]
                    THEN clock ELSE notes[id].updatedAt

C17_AsStatedStep ==
    (OwnRequest("updateNote") /\ ~(resp'.req.input.body.title # Undefined
                                    /\ TitleLength(resp'.req.input.body.title[1]) > 200)) =>
        LET id == resp'.req.input.id
            body == resp'.req.input.body IN
        /\ \A f \in UpdateFields :
               notes'[id][f] = IF body[f] # Undefined THEN body[f][1] ELSE notes[id][f]
        /\ \A f \in {"user", "createdAt", "updatedAt"} : notes'[id][f] = notes[id][f]

C15_Step ==
    (AnswersNow("getNotesStats") /\ resp'.req.userId # 0) =>
        LET own == OwnedBy(resp'.req.userId)
            stats == resp'.data.stats IN
        /\ resp'.status = 200
        /\ stats.total = Cardinality(own)
        /\ stats.pinned = Cardinality({i \in own : notes[i].isPinned})
        /\ stats.archived = Cardinality({i \in own : notes[i].isArchived})
        /\ stats.active = Cardinality({i \in own : ~notes[i].isArchived})
        /\ stats.total = stats.active + stats.archived
        /\ stats.pinned <= stats.total
        /\ own = {} => stats = [total |-> 0, pinned |-> 0, archived |-> 0, active |-> 0]
        /\ notes' = notes

\* C15. getNotesStats for a user returns the numbers of that user's notes, of
\* the pinned, of the archived and of the not archived among them, so that
\* total = active + archived and pinned <= total; notes of other users are
\* not counted, and the four numbers are 0 for a user without notes.
C15_StatsCountOwnNotes == [][C15_Step]_vars

\* C15, witness: the statistics of a user without notes were returned while
\* another user had a note.
C15_Witness ==
    /\ resp.op = "getNotesStats" /\ resp.status = 200
    /\ resp.data.stats.total = 0
    /\ \E i \in 1..Len(notes) : notes[i] # None /\ notes[i].user # resp.req.userId

C16_Step ==
    (AnswersNow("deleteMultipleNotes") /\ resp'.req.userId # 0) =>
        LET noteIds == resp'.req.input.noteIds IN
        IF noteIds = Undefined \/ ~noteIds[1].isArray \/ noteIds[1].elems = {}
        THEN /\ resp'.status = 400
             /\ resp'.message = "Please provide an array of note IDs"
             /\ notes' = notes
        ELSE LET gone == noteIds[1].elems \cap OwnedBy(resp'.req.userId) IN
             /\ resp'.status = 200
             /\ resp'.data.deletedCount = Cardinality(gone)
             /\ Len(notes') = Len(notes)
             /\ \A i \in 1..Len(notes) :
                    notes'[i] = IF i \in gone THEN None ELSE notes[i]

\* C16. deleteMultipleNotes deletes exactly the notes whose id is in noteIds
\* and whose owner is the requester, returns their number as deletedCount and
\* leaves every other note as it was, the notes of other users named in
\* noteIds among them; with noteIds missing, not an array or empty it answers
\* 400 'Please provide an array of note IDs' and deletes nothing.
C16_DeleteMultiple == [][C16_Step]_vars

\* C16, witness: a request naming a note of another user was answered with
\* deletedCount 0 and the note is still stored.
C16_Witness ==
    /\ resp.op = "deleteMultipleNotes" /\ resp.status = 200
    /\ resp.data.deletedCount = 0
    /\ \E i \in resp.req.input.noteIds[1].elems :
           i <= Len(notes) /\ notes[i] # None /\ notes[i].user # resp.req.userId

\* The forgot-password request that ends in the step after its mail failed
\* is answered 500 and leaves its user without reset token and expiry, so
\* that no token finds this user.
C20_ClearStep ==
    \A r \in Finished("forgotPassword") :
        r.pc = "clear" =>
            /\ resp'.status = 500
            /\ resp'.message = "Failed to send reset email. Please try again later."
            /\ users'[r.l.userId].resetPasswordToken = None
            /\ users'[r.l.userId].resetPasswordExpire = NoDate
            /\ \A code \in ResetCodes :
                   \A now \in {clock, 0} : r.l.userId \notin findByResetToken(code, now)'

\* A stored reset token is the token of a forgot-password request that is
\* still running, or of one whose mail to the user was sent.
C20_StoredTokenWasSent ==
    \A u \in UserIds :
        users[u].resetPasswordToken # None =>
            \/ \E r \in reqs :
                  /\ r.op = "forgotPassword" /\ r.pc \in {"send", "clear"}
                  /\ r.l.userId = u
                  /\ r.l.reset.resetPasswordToken = users[u].resetPasswordToken
            \/ \E m \in mail :
                  /\ m.to = users[u].email
                  /\ hashToken(m.resetToken) = users[u].resetPasswordToken

Settles(op) == client'.last.id # client.last.id /\ client'.last.op = op

C18_LogoutStep ==
    Settles("logout") =>
        /\ client'.accessToken = NoItem
        /\ client'.user = None
        /\ client'.value.user = None
        /\ client'.value.isAuthenticated = FALSE

C18_IsAuthenticated ==
    client.open => (client.value.isAuthenticated <=> client.value.user # None)

\* C18. logout of the AuthProvider ends with no accessToken in localStorage,
\* user null and isAuthenticated false, whether its call of the API resolved
\* or was rejected; and in every state of the provider isAuthenticated is
\* true exactly when user is not null.
C18_LogoutClears == [][C18_LogoutStep]_vars /\ []C18_IsAuthenticated

\* C18, witness: a logout whose call was rejected after a refresh had stored
\* a new access token has ended.
C18_Witness ==
    /\ client.open
    /\ client.last.op = "logout" /\ client.last.outcome = "rejected"
    /\ client.last.refreshes = 1 /\ client.last.sends = 2
    /\ client.accessToken = NoItem /\ client.value.isAuthenticated = FALSE

\* The interceptor's handling of one request: one refresh and two sends at
\* most, no refresh for an auth endpoint.
C19_Bounded ==
    client.open =>
        \A c \in client.calls \cup {client.last} :
            /\ c.refreshes <= 1 /\ c.sends <= c.refreshes + 1
            /\ (c.id # 0 /\ isNoRefreshUrl(UrlOf(c.op))) => c.refreshes = 0

\* A refresh that brings a token stores it and sends the request again with
\* it; a refresh that fails removes the token and rejects the call.
C19_RefreshStep ==
    \A c \in client.calls :
        c.pc = "refresh" /\ (\A d \in client'.calls : d.id = c.id => d.pc # "refresh") =>
            \/ \E d \in client'.calls :
                  /\ d.id = c.id /\ d.pc = "sent" /\ d.retry
                  /\ d.authorization \in AccessTokens
                  /\ d.authorization = client'.accessToken
            \/ /\ client'.last.id = c.id /\ client'.last.outcome = "rejected"
               /\ client'.last.sends = 1
               /\ client'.accessToken = NoItem

\* An answer 401 starts a refresh when the request is not one to an auth
\* endpoint and was not sent again yet, and is passed to the caller otherwise.
C19_AnswerStep ==
    \A c \in client.calls :
        c.pc = "sent" =>
            /\ (\E d \in client'.calls : d.id = c.id /\ d.pc = "refresh") =>
                   ~c.retry /\ ~isNoRefreshUrl(c.url) /\ c.refreshes = 0
            /\ (c.retry /\ c \notin client'.calls) =>
                   /\ client'.last.id = c.id
                   /\ c.op \in {"getNotes", "updateProfile"} =>
                          client'.accessToken = client.accessToken

\* C19. For a request that is not to an auth endpoint the response
\* interceptor of apiClient makes one refresh at most and, with the new token,
\* sends the request once more; a 401 to the request sent again goes to the
\* caller without another refresh; a failed refresh removes the accessToken
\* from localStorage and rejects the call: a request is sent twice at most.
C19_RefreshOnce == [][C19_RefreshStep /\ C19_AnswerStep]_vars /\ []C19_Bounded

\* C19, witness: a request for the notes was answered 401, the token was
\* refreshed, the request sent again failed and the call was rejected, the
\* new token still stored.
C19_Witness ==
    /\ client.open
    /\ client.last.op = "getNotes" /\ client.last.outcome = "rejected"
    /\ client.last.refreshes = 1 /\ client.last.sends = 2
    /\ client.accessToken \in AccessTokens

\* ------------------------------------------------------- reset code claims
\* The users to whom the code was mailed and who still hold it unexpired.
IssuedTo(token) ==
    {u \in UserIds :
        /\ users[u].resetPasswordToken = [sha256 |-> token]
        /\ users[u].resetPasswordExpire > clock
        /\ \E m \in mail : m.to = users[u].email /\ m.resetToken = token}

\* reset-password that accepts a token goes on for the one user the token was
\* issued to, and verify-reset-token answers with that user's email.
C23_Step ==
    /\ \A r \in Started("resetPassword") :
          IssuedTo(r.req.token) = {r.l.userId}
    /\ (AnswersNow("verifyResetToken") /\ resp'.status = 200) =>
          {users[u].email : u \in IssuedTo(resp'.req.token)} = {resp'.data.email}

\* C23. reset-password with token K changes the password of the user to whom
\* K was issued and of no other user, and verify-reset-token returns that
\* user's email, also when two users hold unexpired reset tokens at the same
\* time and both were issued the same code.
C23_ResetOnlyIssuedUser == [][C23_Step]_vars

\* ------------------------------------------------------------ store claims
\* The step answers a request: at once, or a request in flight leaves.
Answered ==
    \/ nreq' = nreq + 1 /\ reqs' = reqs
    \/ \E r \in reqs : \A q \in reqs' : q.id # r.id

StoreChanged == users' # users \/ notes' # notes

\* A step that answers 4xx changes no user and no note, and the request it
\* answers wrote nothing at its earlier awaits; a request that goes on after a
\* step that wrote carries the mark of it.
C22_Step ==
    /\ (Answered /\ resp'.status \in 400..499) =>
          /\ ~StoreChanged
          /\ \A r \in reqs : (\A q \in reqs' : q.id # r.id) => ~r.wrote
    /\ StoreChanged => \A q \in reqs' \ reqs : q.wrote

\* C22. Every API request that is answered with a 4xx status leaves the
\* persistent store unchanged: no field of a user and no note is created,
\* modified or deleted by a request that fails validation, authentication,
\* authorization or lookup.
C22_RefusedLeavesStore == [][C22_Step]_vars

\* change-password was refused for a wrong current password after its lookup,
\* with a note in the store.
C22_Witness ==
    /\ resp.op = "changePassword" /\ resp.status = 401
    /\ resp.message = "Current password is incorrect"
    /\ Len(notes) > 0
    /\ \A u \in UserIds : users[u].password = preSavePassword(PwOld)

\* ----------------------------------------------------------- queue claims
\* The calls whose refresh request is in flight.
Refreshing(cl) == {c \in cl.calls : c.pc = "refresh"}

\* The calls that wait in failedQueue.
Queued(cl) == {cl.failedQueue[i] : i \in 1..Len(cl.failedQueue)}

CallOf(cl, id) == CHOOSE c \in cl.calls : c.id = id

\* The step handles `event`.
Handles(event) == client' # client /\ client'.last.event = event

\* At most one refresh request is in flight, isRefreshing says whether one is,
\* and failedQueue holds the waiting calls, none when no refresh is in flight.
C21_OneRefresh ==
    /\ Cardinality(Refreshing(client)) <= 1
    /\ client.isRefreshing <=> Refreshing(client) # {}
    /\ {c.id : c \in {q \in client.calls : q.pc = "queued"}} = Queued(client)
    /\ Cardinality(Queued(client)) = Len(client.failedQueue)
    /\ ~client.isRefreshing => client.failedQueue = <<>>

\* The call that received the 401 is queued and no refresh starts.
C21_IsQueued ==
    /\ \E c \in client'.calls : c.id = client'.last.id /\ c.pc = "queued"
    /\ client'.failedQueue = Append(client.failedQueue, client'.last.id)
    /\ Refreshing(client') = Refreshing(client)

\* When the refresh resolves every queued call is sent again with the new
\* token, when it fails every queued call is rejected and the token cleared;
\* the queue ends empty and isRefreshing false.
C21_RefreshStep ==
    /\ Handles("refreshed") =>
          /\ client'.accessToken = client'.last.token
          /\ client'.last.token # NoItem
          /\ Queued(client) \cup {client'.last.id} = client'.last.again
          /\ \A id \in client'.last.again :
                /\ CallOf(client', id).pc = "sent"
                /\ CallOf(client', id).authorization = client'.last.token
          /\ client'.last.rejected = {}
          /\ client'.failedQueue = <<>> /\ ~client'.isRefreshing
    /\ Handles("refresh failed") =>
          /\ client'.accessToken = NoItem
          /\ Queued(client) \cup {client'.last.id} = client'.last.rejected
          /\ \A c \in client'.calls : c.id \notin client'.last.rejected
          /\ client'.last.again = {}
          /\ client'.failedQueue = <<>> /\ ~client'.isRefreshing

\* A 401 for a call not yet sent again (_retry unset) that arrives while a
\* refresh is in flight is queued.
C21_Step ==
    /\ (Handles("401") /\ client.isRefreshing
          /\ ~CallOf(client, client'.last.id).retry) => C21_IsQueued
    /\ C21_RefreshStep

\* Every 401 that arrives while a refresh is in flight is queued.
C21_StepAsStated ==
    /\ (Handles("401") /\ client.isRefreshing) => C21_IsQueued
    /\ C21_RefreshStep

\* C21 (as the code has it). In the queueing client at most one refresh
\* request of the interceptor is in flight at any time: a 401 for a request
\* whose _retry is unset, received while a refresh is in progress, is queued
\* instead of starting another refresh; when the refresh resolves every queued
\* request is retried with the new access token, when it fails every queued
\* request is rejected and the access token is cleared; in both cases the
\* queue ends empty and isRefreshing returns to false.
C21_QueueingRefresh == [][C21_Step]_vars /\ []C21_OneRefresh

\* C21 (as stated). In the queueing client at most one refresh request is in
\* flight at any time: a 401 received while a refresh is in progress is queued
\* instead of starting another refresh; when the refresh resolves every queued
\* request is retried with the new access token, when it fails every queued
\* request is rejected and the access token is cleared; in both cases the
\* queue ends empty and isRefreshing returns to false.
C21_AsStated == [][C21_StepAsStated]_vars /\ []C21_OneRefresh

\* A refresh resolved with two calls waiting: the three calls were sent again
\* with the new token, the queue is empty and isRefreshing false.
C21_Witness ==
    /\ client.last.event = "refreshed"
    /\ Cardinality(client.last.again) = 3
    /\ \A c \in client.calls : c.pc = "sent" /\ c.authorization = "at2"
    /\ \E c \in client.calls : ~c.retry
    /\ client.accessToken = "at2"
    /\ client.failedQueue = <<>> /\ ~client.isRefreshing
=============================================================================
